---- MODULE Spec2Model ----
(***************************************************************************)
(* A model of the hermes (itchysats) daemon: the event store of            *)
(* daemon/src/db.rs (contract rows, the event log, the aggregate cache and *)
(* the archival of settled contracts), the projection aggregate of         *)
(* daemon/src/projection.rs, the monitor handler of daemon/src/            *)
(* cfd_actors.rs and the maker's collaborative settlement actor of         *)
(* daemon/src/collab_settlement/maker.rs.                                  *)
(***************************************************************************)
EXTENDS Integers, Sequences, FiniteSets, TLC

(***************************************************************************)
(* Bounds of the model.                                                    *)
(***************************************************************************)
\* Number of distinct order ids (contracts).
NumOrders == 2
\* Number of append_event calls in a run (the logical clock stops there).
MaxEvents == 3
\* Number of concurrent callers of load_open_cfd.
NumLoaders == 2
\* Number of inbound substreams that deliver a Propose to the settlement actor.
MaxSubstreams == 3

OrderIds == 1..NumOrders

\* Oracle event ids (BitMexPriceEventId) a DLC can settle on.
NumEventIds == 2
EventIds == 1..NumEventIds
Loaders == 1..NumLoaders

\* Rust's None (of an Option) and the absence of a row.
None == [ none |-> TRUE ]

Roles == {"Maker", "Taker"}

(***************************************************************************)
(* model::EventKind, as matched in projection.rs Cfd::apply and in db.rs   *)
(* ClosedCfdInputAggregate::apply.                                         *)
(***************************************************************************)
EventKind ==
    { "ContractSetupStarted", "ContractSetupCompleted", "ContractSetupFailed",
      "OfferRejected",
      "RolloverStarted", "RolloverAccepted", "RolloverRejected",
      "RolloverCompleted", "RolloverFailed",
      "CollaborativeSettlementStarted", "CollaborativeSettlementProposalAccepted",
      "CollaborativeSettlementCompleted", "CollaborativeSettlementRejected",
      "CollaborativeSettlementFailed",
      "LockConfirmed", "LockConfirmedAfterFinality", "CommitConfirmed",
      "CetConfirmed", "RefundConfirmed", "RevokeConfirmed",
      "CollaborativeSettlementConfirmed",
      "CetTimelockExpiredPriorOracleAttestation",
      "CetTimelockExpiredPostOracleAttestation",
      "RefundTimelockExpired",
      "OracleAttestedPriorCetTimelock", "OracleAttestedPostCetTimelock",
      "ManualCommit" }

\* The event kinds appended where contracts are archived: the setup, a
\* collaborative close, two confirmations that end a contract, and a
\* confirmation that does not.
AppendedKinds ==
    { "ContractSetupCompleted", "CollaborativeSettlementCompleted",
      "CollaborativeSettlementConfirmed", "CetConfirmed", "LockConfirmed" }

(***************************************************************************)
(* projection.rs: CfdState and Cfd::apply.                                 *)
(***************************************************************************)
CfdState ==
    { "PendingSetup", "ContractSetup", "Rejected", "PendingOpen", "Open",
      "PendingCommit", "PendingCet", "PendingClose", "OpenCommitted",
      "IncomingSettlementProposal", "OutgoingSettlementProposal",
      "IncomingRolloverProposal", "OutgoingRolloverProposal",
      "Closed", "PendingRefund", "Refunded", "SetupFailed" }

\* The terminal set of the specification.
TerminalStates == { "Closed", "Refunded", "Rejected", "SetupFailed" }

\* The state Cfd::apply assigns for an event; every arm assigns
\* unconditionally, whatever the state before.
apply_state(role, name) ==
    CASE name = "ContractSetupStarted" -> "ContractSetup"
      [] name = "ContractSetupCompleted" -> "PendingOpen"
      [] name = "ContractSetupFailed" -> "SetupFailed"
      [] name = "OfferRejected" -> "Rejected"
      [] name = "RolloverCompleted" -> "Open"
      [] name = "RolloverRejected" -> "Open"
      [] name = "RolloverFailed" -> "Open"
      [] name = "CollaborativeSettlementStarted" ->
            IF role = "Maker" THEN "IncomingSettlementProposal"
                              ELSE "OutgoingSettlementProposal"
      [] name = "CollaborativeSettlementProposalAccepted" -> "PendingClose"
      [] name = "CollaborativeSettlementCompleted" -> "PendingClose"
      [] name = "CollaborativeSettlementRejected" -> "Open"
      [] name = "CollaborativeSettlementFailed" -> "Open"
      [] name = "LockConfirmed" -> "Open"
      [] name = "CommitConfirmed" -> "OpenCommitted"
      [] name = "CetConfirmed" -> "Closed"
      [] name = "RefundConfirmed" -> "Refunded"
      [] name = "LockConfirmedAfterFinality" -> "Closed"
      [] name = "CollaborativeSettlementConfirmed" -> "Closed"
      [] name = "CetTimelockExpiredPriorOracleAttestation" -> "OpenCommitted"
      [] name = "CetTimelockExpiredPostOracleAttestation" -> "PendingCet"
      [] name = "RefundTimelockExpired" -> "PendingRefund"
      [] name = "OracleAttestedPriorCetTimelock" -> "PendingCommit"
      [] name = "OracleAttestedPostCetTimelock" -> "PendingCet"
      [] name = "ManualCommit" -> "PendingCommit"
      [] name = "RevokeConfirmed" -> "OpenCommitted"
      [] name = "RolloverStarted" ->
            IF role = "Maker" THEN "IncomingRolloverProposal"
                              ELSE "OutgoingRolloverProposal"
      [] name = "RolloverAccepted" -> "ContractSetup"

(***************************************************************************)
(* db.rs: the aggregate behind the CfdAggregate trait (new, apply,         *)
(* version).  The version of a CFD is the number of events that have been  *)
(* applied; `applied` is the history of the events folded in, by their     *)
(* created_at stamp.                                                       *)
(***************************************************************************)
CfdAggregate_new(id, row) ==
    [ id |-> id, role |-> row.role, version |-> 0,
      state |-> "PendingSetup", applied |-> << >> ]

\* An apply that leaves the version alone, as an aggregate that does not count
\* its events would.
CfdAggregate_apply_uncounted(cfd, event) ==
    [ cfd EXCEPT !.state = apply_state(cfd.role, event.name),
                 !.applied = Append(@, event.created_at) ]

CfdAggregate_apply(cfd, event) ==
    [ cfd EXCEPT !.version = @ + 1,
                 !.state = apply_state(cfd.role, event.name),
                 !.applied = Append(@, event.created_at) ]

RECURSIVE fold(_, _)
fold(cfd, evs) ==
    IF evs = << >> THEN cfd
    ELSE fold(CfdAggregate_apply(cfd, Head(evs)), Tail(evs))

(***************************************************************************)
(* State.                                                                  *)
(***************************************************************************)
VARIABLES
    cfds,             \* table cfds: order id -> row, or None
    events,           \* table events, in rowid order
    now,              \* number of events appended so far (Timestamp::now)
    aggregate_cache,  \* Connection::aggregate_cache: order id -> aggregate, or None
    closed_cfds,      \* table closed_cfds and its satellites: order id -> record, or None
    loaders,          \* the load_open_cfd calls in flight
    ret,              \* what the last finished operation returned
    emitted,          \* collab settlement: order id -> the events the executor has stored
    pending_protocols, \* collab_settlement::maker::Actor::pending_protocols
    protocol_tasks,   \* collab_settlement::maker::Actor::protocol_tasks
    substreams,       \* number of inbound substreams that delivered a Propose
    alive,            \* whether the collab settlement actor is running
    pm_role,          \* process_manager::Actor::role
    handled,          \* process manager: the last Event handled and its outcome, or None
    attempted,        \* process manager: the sends made while handling that Event
    settlement_event_id, \* order id -> settlement_event_id of the DLC in its events, or 0
    announcements,    \* oracle::Actor::announcements (the event ids it has)
    pending_attestations, \* oracle::Actor::pending_attestations
    announcement_fetches, \* oracle: event id -> announcement fetch tasks running
    attestation_fetches,  \* oracle: event id -> attestation fetch tasks running
    new_attestations, \* oracle: event id -> NewAttestationFetched messages not yet handled
    likely_occured,   \* event ids whose outcome time has passed
    decrypt_calls,    \* oracle: the decrypt_cet executions of the last NewAttestationFetched
    last_fetch,       \* oracle: how the last attestation fetch task ended, or None
    restart_policy,   \* supervisor::Actor::restart_policy: the stop reasons it restarts on
    metrics,          \* supervisor::Actor::metrics
    supervised,       \* supervisor: whether an instance of the supervised actor runs
    notification,     \* supervisor: the Stopped or Panicked message not yet handled, or None
    conn_state,       \* connection::Actor::state
    status,           \* the ConnectionStatus in the watch channel of status_sender
    changed,          \* whether the watch channel holds a value the reconnect loop has not seen
    clock,            \* SystemTime::now, in units of heartbeat_measuring_rate
    reconnect,        \* connection::connect: where the reconnect loop stands
    position_maker,   \* rollover tests: the position the maker took
    rollover_cfd,     \* rollover: side -> the latest DLC of the contract and its complete fee
    rollover_tables,  \* rollover: side -> the rollover tables of the database
    next_txid,        \* rollover: the txid of the next commit transaction built
    taker_saved,      \* rollover tests: the DLC and fees the test kept of the taker, or None
    rollover_steps,   \* rollover tests: the steps the test has made
    feed,             \* lifecycle: side -> the events of the contract, in order
    broadcast,        \* lifecycle: the transactions of the contract sent to the chain
    delivered,        \* lifecycle: side -> the attestations delivered to it
    current_offers,   \* xtra_libp2p_offer::maker::Actor::current_offers
    connected_peers,  \* xtra_libp2p_offer::maker::Actor::connected_peers
    latest_offers,    \* the LatestOffers messages the taker actor has not handled yet
    offers,           \* taker_cfd::Actor::offers: offer id -> offer, or None
    utc,              \* OffsetDateTime::now_utc
    next_offer_id,    \* the id of the next offer the maker creates
    order_actor,      \* whether the order actor of the taker is running
    place_orders,     \* the order::taker::PlaceOrder messages the order actor was sent
    place_order_ret,  \* what the last taker_cfd::PlaceOrder returned, or None
    tasks,            \* Tasks: the handles it holds, and whether it was dropped
    task_state,       \* task id -> the kind of the task and where its future stands, or None
    task_progress,    \* task id -> the number of polls of the future
    mailbox,          \* the messages queued at the address of the supervised actor, in order
    handled_by,       \* message -> the instance (its number of spawn) that handled it, or 0
    interval_loop,    \* send_interval: loop -> where it stands, how long it has slept, what it has sent
    receiver,         \* the actor the loops send to: its mailbox, the message in its handler, whether it runs
    rollover_actor,   \* rollover_taker::Actor of each order: its position and its cfd
    proposals_sent,   \* ProposeRollOver messages given to self.maker, per order
    on_completed,     \* the Completed messages given to the owner, per order
    rollover_proposal \* the proposal the projection shows, per order, or None

storeVars == << cfds, events, now, aggregate_cache, closed_cfds, loaders, ret >>

actorVars == << emitted, pending_protocols, protocol_tasks, substreams, alive >>

pmVars == << pm_role, handled, attempted >>

oracleVars == << announcements, pending_attestations, announcement_fetches,
                 attestation_fetches, new_attestations, likely_occured, decrypt_calls,
                 last_fetch >>

supervisorVars == << restart_policy, metrics, supervised, notification >>

connVars == << conn_state, status, changed, clock, reconnect >>

rolloverVars == << position_maker, rollover_cfd, rollover_tables, next_txid,
                   taker_saved, rollover_steps >>

lifecycleVars == << feed, broadcast, delivered >>

takerCfdVars == << current_offers, connected_peers, latest_offers, offers, utc,
                   next_offer_id, order_actor, place_orders, place_order_ret >>

tasksVars == << tasks, task_state, task_progress >>

mailboxVars == << mailbox, handled_by >>

sendIntervalVars == << interval_loop, receiver >>

rolloverTakerVars == << rollover_actor, proposals_sent, on_completed, rollover_proposal >>

laterVars == << connVars, rolloverVars, lifecycleVars, takerCfdVars, tasksVars,
                mailboxVars, sendIntervalVars, rolloverTakerVars >>

serviceVars == << pmVars, settlement_event_id, oracleVars, supervisorVars, laterVars >>

earlierVars == << storeVars, actorVars, pmVars, settlement_event_id, oracleVars,
                  supervisorVars >>

vars == << cfds, events, now, aggregate_cache, closed_cfds, loaders, ret,
           emitted, pending_protocols, protocol_tasks, substreams, alive,
           pm_role, handled, attempted, settlement_event_id,
           announcements, pending_attestations, announcement_fetches,
           attestation_fetches, new_attestations, likely_occured, decrypt_calls,
           last_fetch, restart_policy, metrics, supervised, notification,
           conn_state, status, changed, clock, reconnect,
           position_maker, rollover_cfd, rollover_tables, next_txid, taker_saved,
           rollover_steps, feed, broadcast, delivered,
           current_offers, connected_peers, latest_offers, offers, utc,
           next_offer_id, order_actor, place_orders, place_order_ret,
           tasks, task_state, task_progress,
           mailbox, handled_by,
           interval_loop, receiver,
           rollover_actor, proposals_sent, on_completed, rollover_proposal >>

\* What the connection actor and the reconnect loop leave alone.
notConnVars == << earlierVars, rolloverVars, lifecycleVars, takerCfdVars, tasksVars,
                  mailboxVars, sendIntervalVars, rolloverTakerVars >>

\* What a rollover leaves alone.
notRolloverVars == << earlierVars, connVars, lifecycleVars, takerCfdVars, tasksVars,
                      mailboxVars, sendIntervalVars, rolloverTakerVars >>

\* What the lifecycle of a contract leaves alone.
notLifecycleVars == << earlierVars, connVars, rolloverVars, takerCfdVars, tasksVars,
                       mailboxVars, sendIntervalVars, rolloverTakerVars >>

\* What the offers and the orders of the taker leave alone.
notTakerCfdVars == << earlierVars, connVars, rolloverVars, lifecycleVars, tasksVars,
                      mailboxVars, sendIntervalVars, rolloverTakerVars >>

\* What a Tasks collection leaves alone.
notTasksVars == << earlierVars, connVars, rolloverVars, lifecycleVars, takerCfdVars,
                   mailboxVars, sendIntervalVars, rolloverTakerVars >>

\* What the mailbox of the supervised actor leaves alone.
notMailboxVars == << earlierVars, connVars, rolloverVars, lifecycleVars, takerCfdVars,
                     tasksVars, sendIntervalVars, rolloverTakerVars >>

\* What a send_interval loop and its receiver leave alone.
notSendIntervalVars == << earlierVars, connVars, rolloverVars, lifecycleVars,
                          takerCfdVars, tasksVars, mailboxVars, rolloverTakerVars >>

\* Everything but the taker's rollover actors.
notRolloverTakerVars == << earlierVars, connVars, rolloverVars, lifecycleVars,
                           takerCfdVars, tasksVars, mailboxVars, sendIntervalVars >>

\* ConnectionStatus.
Online == [ online |-> TRUE, reason |-> "None" ]
Offline(reason) == [ online |-> FALSE, reason |-> reason ]

\* State.
Disconnected == [ connected |-> FALSE, last_heartbeat |-> 0, last_pulse |-> 0,
                  pulsed |-> FALSE ]

\* connection::Actor::new and the start of connect: not connected, the watch
\* channel holds Offline, the loop is about to read it.
InitConnectionActor ==
    /\ conn_state = Disconnected
    /\ status = Offline("None")
    /\ changed = FALSE
    /\ clock = 0
    /\ reconnect = [ pc |-> "borrow", address |-> 0, seconds |-> 0 ]

\* The oracle data of the tests (maia.rs): the hour of the first event of
\* each example, counted from 2021-10-05T00:00, and the hours announced after it.
EVENT_ID_0 == 2
EVENT_ID_1 == 8
AnnouncedHours == 24
OliviaData == { "example_0", "example_1" }

\* OliviaData::announcements: the ids of the hourly events from the example's
\* id to 24 hours later.
oracle_announcements(oracle_data) ==
    LET id == IF oracle_data = "example_0" THEN EVENT_ID_0 ELSE EVENT_ID_1
    IN  [ i \in 1..(AnnouncedHours + 1) |-> id + (i - 1) ]

\* OliviaData::settlement_announcement: the last announcement.
settlement_announcement(oracle_data) ==
    oracle_announcements(oracle_data)[Len(oracle_announcements(oracle_data))]

Positions == { "Long", "Short" }

\* No rollover completed yet: the rollover tables are empty.
NoRolloverData ==
    [ rollover_completed_event_data |-> {}, revoked_commit_transactions |-> {},
      open_cets |-> {} ]

\* The DLC contract setup made: commit transaction 0, nothing revoked, the
\* settlement event of the oracle data the contract was opened with.
setup_dlc(r, oracle_data) ==
    [ commit_txid |-> 0,
      settlement_event_id |-> settlement_announcement(oracle_data),
      revocation |-> << r, 0 >>,
      revoked_commit |-> {} ]

\* prepare_rollover: maker and taker hold the open contract of
\* start_from_open_cfd_state, no funding costs yet.
prepare_rollover(maker_position, oracle_data) ==
    /\ position_maker = maker_position
    /\ rollover_cfd = [ r \in Roles |->
                          [ dlc |-> setup_dlc(r, oracle_data), complete_fee |-> 0 ] ]
    /\ rollover_tables = [ r \in Roles |-> NoRolloverData ]
    /\ next_txid = 1
    /\ taker_saved = None
    /\ rollover_steps = << >>

\* The offers the maker publishes: one per contract symbol and position.
MaxOfferId == 2
OfferIds == 1 .. MaxOfferId
OfferKeys == { << "BtcUsd", "Long" >>, << "BtcUsd", "Short" >> }

\* The tasks an owner adds to its Tasks.
MaxTasks == 3
TaskIds == 1 .. MaxTasks

\* start_both and place_order: the order is placed, both sides show the
\* contract without an event, nothing is on the chain.
InitLifecycle ==
    /\ feed = [ r \in Roles |-> << >> ]
    /\ broadcast = {}
    /\ delivered = [ r \in Roles |-> {} ]

\* xtra_libp2p_offer::maker::Actor::new and taker_cfd::Actor::new: no offer
\* published, no peer connected, no offer held, no order placed.
InitTakerCfd ==
    /\ current_offers = [ k \in OfferKeys |-> None ]
    /\ connected_peers = {}
    /\ latest_offers = {}
    /\ offers = [ id \in OfferIds |-> None ]
    /\ utc = 0
    /\ next_offer_id = 1
    /\ order_actor = TRUE
    /\ place_orders = << >>
    /\ place_order_ret = None

\* Tasks::default: no handle held, no task spawned.
InitTasks ==
    /\ tasks = [ dropped |-> FALSE, handles |-> << >> ]
    /\ task_state = [ t \in TaskIds |-> None ]
    /\ task_progress = [ t \in TaskIds |-> 0 ]

\* The messages sent to the address of the supervised actor.
MaxMessages == 2
MsgIds == 1 .. MaxMessages

\* Context::new in with_policy: the mailbox behind the address is empty.
InitMailbox ==
    /\ mailbox = << >>
    /\ handled_by = [ m \in MsgIds |-> 0 ]

\* The send_interval loops of one actor, the interval in ticks, and the
\* messages a loop sends before the run ends.
NumIntervals == 2
Intervals == 1 .. NumIntervals
IntervalTicks == 1
MaxSent == 2

\* The loops are spawned with the actor: each is about to send its first
\* message, the mailbox is empty.
InitSendInterval ==
    /\ interval_loop = [ l \in Intervals |-> [ pc |-> "send", slept |-> 0, sent |-> 0 ] ]
    /\ receiver = [ alive |-> TRUE, mailbox |-> << >>, handling |-> 0 ]

\* No rollover actor has been spawned, nothing was proposed.
InitRolloverTaker ==
    /\ rollover_actor = [ o \in OrderIds |-> [ pc |-> "unspawned", cfd |-> "Open" ] ]
    /\ proposals_sent = [ o \in OrderIds |-> 0 ]
    /\ on_completed = [ o \in OrderIds |-> << >> ]
    /\ rollover_proposal = [ o \in OrderIds |-> None ]

InitLater ==
    /\ InitConnectionActor
    /\ prepare_rollover("Short", "example_0")
    /\ InitLifecycle
    /\ InitTakerCfd
    /\ InitTasks
    /\ InitMailbox
    /\ InitSendInterval
    /\ InitRolloverTaker

\* The reasons a supervised actor stops with (xtra::Actor::Stop).
StopReasons == { "Shutdown", "Failed" }

\* supervisor::Actor::with_policy: no instance spawned yet, metrics at zero.
InitSupervisorActor ==
    /\ metrics = [ num_spawns |-> 0, num_panics |-> 0 ]
    /\ supervised = FALSE
    /\ notification = None

\* oracle::Actor::new: nothing announced, nothing pending, no task running.
InitOracleActor ==
    /\ announcements = {}
    /\ pending_attestations = {}
    /\ announcement_fetches = [ e \in EventIds |-> 0 ]
    /\ attestation_fetches = [ e \in EventIds |-> 0 ]
    /\ new_attestations = [ e \in EventIds |-> 0 ]
    /\ likely_occured = {}
    /\ decrypt_calls = {}
    /\ last_fetch = None

\* at: the value of the clock when the database transaction read (its snapshot).
IdleLoader == [ pc |-> "idle", id |-> 0, cfd |-> None, at |-> 0 ]

NoRet == [ op |-> "none", id |-> 0, result |-> "Ok", cfd |-> None ]

\* The store, the actors and the services before anything has happened.
InitEarlier ==
    /\ cfds = [ o \in OrderIds |-> None ]
    /\ events = << >>
    /\ now = 0
    /\ aggregate_cache = [ o \in OrderIds |-> None ]
    /\ closed_cfds = [ o \in OrderIds |-> None ]
    /\ loaders = [ l \in Loaders |-> IdleLoader ]
    /\ ret = NoRet
    /\ emitted = [ o \in OrderIds |-> << >> ]
    /\ pending_protocols = [ o \in OrderIds |-> None ]
    /\ protocol_tasks = [ o \in OrderIds |-> None ]
    /\ substreams = 0
    /\ alive = TRUE
    /\ pm_role = "Maker"
    /\ handled = None
    /\ attempted = << >>
    /\ settlement_event_id = [ o \in OrderIds |-> 0 ]
    /\ InitOracleActor
    /\ restart_policy = StopReasons
    /\ InitSupervisorActor

Init ==
    /\ InitEarlier
    /\ InitLater

(***************************************************************************)
(* db.rs: queries.                                                         *)
(***************************************************************************)
\* select ... from cfds where cfds.uuid = $1; no row is Error::OpenCfdNotFound.
load_cfd_row(id) == cfds[id]

\* The rows of `events join cfds c on c.id = events.cfd_id where uuid = $1`,
\* in rowid order.
events_of(id) ==
    IF cfds[id] = None THEN << >>
    ELSE SelectSeq(events, LAMBDA e : e.cfd_id = id)

\* The query without its offset: every row of the contract.
load_cfd_events_no_offset(id, from_version) == events_of(id)

\* `limit $2,-1`: skip the first from_version rows, return the rest.
load_cfd_events(id, from_version) ==
    LET rows == events_of(id)
    IN  SubSeq(rows, from_version + 1, Len(rows))

\* No check of the order id at all.
order_id_unchecked(id) == FALSE

\* cfd_actors.rs insert_cfd: a cfd stored for the order id refuses the insert
\* (in db.rs the unique uuid column does).
order_id_taken(id) == cfds[id] # None

ConfirmedKinds ==
    { "CollaborativeSettlementConfirmed", "CetConfirmed", "RefundConfirmed" }

closed_cfd_ids_according_to_the_blockchain ==
    { o \in OrderIds :
        /\ cfds[o] # None
        /\ \E i \in 1..Len(events) :
              events[i].cfd_id = o /\ events[i].name \in ConfirmedKinds }

(***************************************************************************)
(* db.rs: Connection::insert_cfd and Connection::append_event.             *)
(***************************************************************************)
\* Order ids are fresh random uuids: an id is submitted again while its
\* contract is live, never after the contract has been archived.
insert_cfd(id, role) ==
    /\ closed_cfds[id] = None
    /\ IF order_id_taken(id)
       THEN /\ ret' = [ op |-> "insert_cfd", id |-> id, result |-> "Err", cfd |-> None ]
            /\ UNCHANGED cfds
       ELSE /\ cfds' = [ cfds EXCEPT ![id] = [ role |-> role ] ]
            /\ ret' = [ op |-> "insert_cfd", id |-> id, result |-> "Ok", cfd |-> None ]
    /\ UNCHANGED << events, now, aggregate_cache, closed_cfds, loaders >>
    /\ UNCHANGED actorVars
    /\ UNCHANGED serviceVars

\* An append that stores the row in front of the older rows.
append_event_in_front(id, name, commit_tx) ==
    /\ now < MaxEvents
    /\ IF cfds[id] = None
       THEN /\ ret' = [ op |-> "append_event", id |-> id, result |-> "Err", cfd |-> None ]
            /\ UNCHANGED << events, now >>
       ELSE /\ events' = << [ cfd_id |-> id, name |-> name,
                              commit_tx |-> commit_tx,
                              created_at |-> now + 1 ] >> \o events
            /\ now' = now + 1
            /\ ret' = [ op |-> "append_event", id |-> id, result |-> "Ok", cfd |-> None ]
    /\ UNCHANGED << cfds, aggregate_cache, closed_cfds, loaders >>
    /\ UNCHANGED actorVars
    /\ UNCHANGED serviceVars

\* The row is added at the end of the table; an event for an order id that has
\* no row in cfds is not stored.
append_event(id, name, commit_tx) ==
    /\ now < MaxEvents
    /\ IF cfds[id] = None
       THEN /\ ret' = [ op |-> "append_event", id |-> id, result |-> "Err", cfd |-> None ]
            /\ UNCHANGED << events, now >>
       ELSE /\ events' = Append(events, [ cfd_id |-> id, name |-> name,
                                           commit_tx |-> commit_tx,
                                           created_at |-> now + 1 ])
            /\ now' = now + 1
            /\ ret' = [ op |-> "append_event", id |-> id, result |-> "Ok", cfd |-> None ]
    /\ UNCHANGED << cfds, aggregate_cache, closed_cfds, loaders >>
    /\ UNCHANGED actorVars
    /\ UNCHANGED serviceVars

(***************************************************************************)
(* db.rs: Connection::load_open_cfd.                                       *)
(***************************************************************************)
\* The body of load_open_cfd after the cache entry has been taken out: the
\* reads of the database transaction and the fold.  `cached` is the entry
\* removed from the cache (None: no entry).  The result is the aggregate, or
\* None for Error::OpenCfdNotFound.
load_open_cfd_fold(id, cached) ==
    IF cached = None /\ load_cfd_row(id) = None
    THEN None
    ELSE LET cfd == IF cached = None
                    THEN CfdAggregate_new(id, load_cfd_row(id))
                    ELSE cached
         IN  fold(cfd, load_cfd_events(id, cfd.version))

\* The whole call, when no other caller runs during it.
load_open_cfd(id) ==
    LET cfd == load_open_cfd_fold(id, aggregate_cache[id])
    IN  /\ aggregate_cache' = [ aggregate_cache EXCEPT ![id] = cfd ]
        /\ ret' = [ op |-> "load_open_cfd", id |-> id,
                    result |-> IF cfd = None THEN "OpenCfdNotFound" ELSE "Ok",
                    cfd |-> cfd ]
        /\ UNCHANGED << cfds, events, now, closed_cfds, loaders >>
        /\ UNCHANGED actorVars
        /\ UNCHANGED serviceVars

\* The same call, one action per stretch between the awaits at which other
\* callers can run: the removal of the cache entry, the reads of the database
\* transaction with the fold, and the insertion of the folded aggregate into
\* the cache.
load_open_cfd_remove(l, id) ==
    /\ loaders[l].pc = "idle"
    /\ loaders' = [ loaders EXCEPT ![l] =
                      [ pc |-> "removed", id |-> id, cfd |-> aggregate_cache[id],
                        at |-> 0 ] ]
    /\ aggregate_cache' = [ aggregate_cache EXCEPT ![id] = None ]
    /\ UNCHANGED << cfds, events, now, closed_cfds, ret >>
    /\ UNCHANGED actorVars
    /\ UNCHANGED serviceVars

load_open_cfd_read(l) ==
    LET id == loaders[l].id
        cfd == load_open_cfd_fold(id, loaders[l].cfd)
    IN  /\ loaders[l].pc = "removed"
        /\ IF cfd = None
           THEN /\ loaders' = [ loaders EXCEPT ![l] = IdleLoader ]
                /\ ret' = [ op |-> "load_open_cfd", id |-> id,
                            result |-> "OpenCfdNotFound", cfd |-> None ]
           ELSE /\ loaders' = [ loaders EXCEPT ![l] =
                                  [ pc |-> "folded", id |-> id, cfd |-> cfd, at |-> now ] ]
                /\ UNCHANGED ret
        /\ UNCHANGED << cfds, events, now, aggregate_cache, closed_cfds >>
        /\ UNCHANGED actorVars
        /\ UNCHANGED serviceVars

load_open_cfd_insert(l) ==
    /\ loaders[l].pc = "folded"
    /\ aggregate_cache' = [ aggregate_cache EXCEPT ![loaders[l].id] = loaders[l].cfd ]
    /\ ret' = [ op |-> "load_open_cfd", id |-> loaders[l].id,
                result |-> "Ok", cfd |-> loaders[l].cfd ]
    /\ loaders' = [ loaders EXCEPT ![l] = IdleLoader ]
    /\ UNCHANGED << cfds, events, now, closed_cfds >>
    /\ UNCHANGED actorVars
    /\ UNCHANGED serviceVars

(***************************************************************************)
(* db.rs: ClosedCfdInputAggregate.  A field is TRUE where the code holds   *)
(* Some(..); err is the Err of apply.  The transactions an event carries   *)
(* are well formed (the outpoint and the output looked up in them exist).  *)
(***************************************************************************)
ClosedCfdInputAggregate_new ==
    [ own_script_pubkey |-> FALSE, expiry_timestamp |-> FALSE, lock |-> FALSE,
      commit |-> FALSE, collaborative_settlement |-> FALSE, cet |-> FALSE,
      refund |-> FALSE, latest_dlc |-> FALSE, err |-> FALSE ]

ClosedCfdInputAggregate_apply(agg, event) ==
    LET name == event.name
    IN  CASE name = "ContractSetupCompleted" ->
                [ agg EXCEPT !.lock = TRUE, !.own_script_pubkey = TRUE,
                             !.expiry_timestamp = TRUE, !.latest_dlc = TRUE ]
          [] name = "RolloverCompleted" ->
                [ agg EXCEPT !.own_script_pubkey = TRUE,
                             !.expiry_timestamp = TRUE, !.latest_dlc = TRUE ]
          [] name = "CollaborativeSettlementCompleted" ->
                [ agg EXCEPT !.collaborative_settlement = TRUE ]
          [] name = "CommitConfirmed" ->
                IF agg.latest_dlc THEN [ agg EXCEPT !.commit = TRUE ]
                                  ELSE [ agg EXCEPT !.err = TRUE ]
          [] name = "RefundTimelockExpired" ->
                IF agg.own_script_pubkey THEN [ agg EXCEPT !.refund = TRUE ]
                                         ELSE [ agg EXCEPT !.err = TRUE ]
          [] name = "OracleAttestedPriorCetTimelock" ->
                LET withCommit == IF agg.commit THEN agg
                                  ELSE [ agg EXCEPT !.commit = event.commit_tx ]
                IN  IF agg.own_script_pubkey THEN [ withCommit EXCEPT !.cet = TRUE ]
                                             ELSE [ agg EXCEPT !.err = TRUE ]
          [] name = "OracleAttestedPostCetTimelock" ->
                IF agg.own_script_pubkey THEN [ agg EXCEPT !.cet = TRUE ]
                                         ELSE [ agg EXCEPT !.err = TRUE ]
          [] name = "ManualCommit" -> [ agg EXCEPT !.commit = TRUE ]
          [] OTHER -> agg

\* events.into_iter().try_fold(closed_cfd, ClosedCfdInputAggregate::apply)
RECURSIVE try_fold(_, _)
try_fold(agg, evs) ==
    IF evs = << >> \/ agg.err THEN agg
    ELSE try_fold(ClosedCfdInputAggregate_apply(agg, Head(evs)), Tail(evs))

\* ClosedCfdInputAggregate::build: the expiry timestamp and the lock must be there.
build_ok(agg) == agg.expiry_timestamp /\ agg.lock

\* The combinations of transactions move_to_closed_cfds and load_closed_cfd
\* accept; every other one is "insane" and bails.
Settlement(c) ==
    CASE c.collaborative_settlement /\ ~c.commit /\ ~c.cet /\ ~c.refund -> "Collaborative"
      [] ~c.collaborative_settlement /\ c.commit /\ c.cet /\ ~c.refund -> "Cet"
      [] ~c.collaborative_settlement /\ c.commit /\ ~c.cet /\ c.refund -> "Refund"
      [] OTHER -> "Insane"

RECURSIVE EventLog_new(_)
EventLog_new(evs) ==
    IF evs = << >> THEN << >>
    ELSE << Head(evs).name >> \o EventLog_new(Tail(evs))

\* The closed record one iteration of move_to_closed_cfds commits for a
\* contract, or None where the iteration fails and its transaction is dropped.
closed_cfd_of(id) ==
    LET evs == load_cfd_events(id, 0)
        agg == try_fold(ClosedCfdInputAggregate_new, evs)
    IN  IF \/ load_cfd_row(id) = None
           \/ agg.err
           \/ ~build_ok(agg)
           \/ Settlement(agg) = "Insane"
           \/ Len(evs) < 1
           \/ closed_cfds[id] # None
        THEN None
        ELSE [ collaborative_settlement |-> agg.collaborative_settlement,
               commit |-> agg.commit, cet |-> agg.cet, refund |-> agg.refund,
               event_log |-> EventLog_new(evs) ]

\* The move without its database transaction: what insert_closed_cfd and
\* insert_event_log wrote before a later step failed stays in the closed tables.
move_to_closed_cfds_without_transaction ==
    LET ids == closed_cfd_ids_according_to_the_blockchain
        moved == { o \in ids : closed_cfd_of(o) # None }
        built(o) == LET agg == try_fold(ClosedCfdInputAggregate_new, load_cfd_events(o, 0))
                    IN  [ collaborative_settlement |-> agg.collaborative_settlement,
                          commit |-> agg.commit, cet |-> agg.cet, refund |-> agg.refund,
                          event_log |-> EventLog_new(load_cfd_events(o, 0)),
                          ok |-> ~agg.err /\ build_ok(agg) ]
    IN  /\ closed_cfds' = [ o \in OrderIds |->
                              IF o \in moved THEN closed_cfd_of(o)
                              ELSE IF o \in ids /\ built(o).ok
                                   THEN [ collaborative_settlement |-> built(o).collaborative_settlement,
                                          commit |-> built(o).commit, cet |-> built(o).cet,
                                          refund |-> built(o).refund,
                                          event_log |-> built(o).event_log ]
                                   ELSE closed_cfds[o] ]
        /\ events' = SelectSeq(events, LAMBDA e : e.cfd_id \notin moved)
        /\ cfds' = [ o \in OrderIds |-> IF o \in moved THEN None ELSE cfds[o] ]
        /\ ret' = [ op |-> "move_to_closed_cfds", id |-> 0, result |-> "Ok", cfd |-> None ]
        /\ UNCHANGED << now, aggregate_cache, loaders >>
        /\ UNCHANGED actorVars
        /\ UNCHANGED serviceVars

\* The row copy without the two deletes at its end.
move_to_closed_cfds_without_delete ==
    LET ids == closed_cfd_ids_according_to_the_blockchain
        moved == { o \in ids : closed_cfd_of(o) # None }
    IN  /\ closed_cfds' = [ o \in OrderIds |->
                              IF o \in moved THEN closed_cfd_of(o) ELSE closed_cfds[o] ]
        /\ ret' = [ op |-> "move_to_closed_cfds", id |-> 0, result |-> "Ok", cfd |-> None ]
        /\ UNCHANGED << cfds, events, now, aggregate_cache, loaders >>
        /\ UNCHANGED actorVars
        /\ UNCHANGED serviceVars

(***************************************************************************)
(* db.rs: Connection::move_to_closed_cfds and Connection::load_closed_cfd. *)
(***************************************************************************)
move_to_closed_cfds ==
    LET ids == closed_cfd_ids_according_to_the_blockchain
        moved == { o \in ids : closed_cfd_of(o) # None }
    IN  /\ closed_cfds' = [ o \in OrderIds |->
                              IF o \in moved THEN closed_cfd_of(o) ELSE closed_cfds[o] ]
        /\ events' = SelectSeq(events, LAMBDA e : e.cfd_id \notin moved)
        /\ cfds' = [ o \in OrderIds |-> IF o \in moved THEN None ELSE cfds[o] ]
        /\ ret' = [ op |-> "move_to_closed_cfds", id |-> 0, result |-> "Ok", cfd |-> None ]
        /\ UNCHANGED << now, aggregate_cache, loaders >>
        /\ UNCHANGED actorVars
        /\ UNCHANGED serviceVars

load_closed_cfd_ok(id) ==
    /\ closed_cfds[id] # None
    /\ Settlement(closed_cfds[id]) # "Insane"

load_closed_cfd(id) ==
    /\ ret' = [ op |-> "load_closed_cfd", id |-> id,
                result |-> IF load_closed_cfd_ok(id) THEN "Ok" ELSE "Err",
                cfd |-> None ]
    /\ UNCHANGED << cfds, events, now, aggregate_cache, closed_cfds, loaders >>
    /\ UNCHANGED actorVars
    /\ UNCHANGED serviceVars

(***************************************************************************)
(* The event store through its API, one call at a time.                    *)
(***************************************************************************)
Next ==
    \/ \E id \in OrderIds, role \in Roles : insert_cfd(id, role)
    \/ \E id \in OrderIds, name \in AppendedKinds : append_event(id, name, FALSE)
    \/ \E id \in OrderIds : load_open_cfd(id)
    \/ move_to_closed_cfds
    \/ \E id \in OrderIds : load_closed_cfd(id)

Spec == Init /\ [][Next]_vars

(***************************************************************************)
(* The event store opened on a database in which an earlier run has stored *)
(* every contract with its completed setup.                                *)
(***************************************************************************)
InitArchive ==
    /\ cfds = [ o \in OrderIds |-> [ role |-> "Maker" ] ]
    /\ events = [ o \in OrderIds |->
                    [ cfd_id |-> o, name |-> "ContractSetupCompleted",
                      commit_tx |-> FALSE, created_at |-> o - NumOrders ] ]
    /\ now = 0
    /\ aggregate_cache = [ o \in OrderIds |-> None ]
    /\ closed_cfds = [ o \in OrderIds |-> None ]
    /\ loaders = [ l \in Loaders |-> IdleLoader ]
    /\ ret = NoRet
    /\ emitted = [ o \in OrderIds |-> << >> ]
    /\ pending_protocols = [ o \in OrderIds |-> None ]
    /\ protocol_tasks = [ o \in OrderIds |-> None ]
    /\ substreams = 0
    /\ alive = TRUE
    /\ pm_role = "Maker"
    /\ handled = None
    /\ attempted = << >>
    /\ settlement_event_id = [ o \in OrderIds |-> 0 ]
    /\ InitOracleActor
    /\ restart_policy = StopReasons
    /\ InitSupervisorActor
    /\ InitLater

SpecArchive == InitArchive /\ [][Next]_vars

(***************************************************************************)
(* The live tables through insert_cfd, append_event and load_open_cfd, one *)
(* call at a time.                                                         *)
(***************************************************************************)
\* The event kinds appended here: one that ends a contract and one that does not.
StoreKinds == { "LockConfirmed", "CetConfirmed" }

NextLog ==
    \/ \E id \in OrderIds, role \in Roles : insert_cfd(id, role)
    \/ \E id \in OrderIds, name \in StoreKinds : append_event(id, name, FALSE)
    \/ \E id \in OrderIds : load_open_cfd(id)

SpecLog == Init /\ [][NextLog]_vars

(***************************************************************************)
(* The live tables under concurrent callers: contracts are inserted,       *)
(* events appended and aggregates loaded, the loads interleaving with each *)
(* other and with the appends.                                             *)
(***************************************************************************)
NextStore ==
    \/ \E id \in OrderIds, role \in Roles : insert_cfd(id, role)
    \/ \E id \in OrderIds, name \in StoreKinds : append_event(id, name, FALSE)
    \/ \E l \in Loaders, id \in OrderIds : load_open_cfd_remove(l, id)
    \/ \E l \in Loaders : load_open_cfd_read(l)
    \/ \E l \in Loaders : load_open_cfd_insert(l)

SpecStore == Init /\ [][NextStore]_vars

(***************************************************************************)
(* cfd_actors.rs: handle_monitoring_event.                                 *)
(***************************************************************************)
\* The chain events the monitor delivers.
MonitorKinds ==
    { "LockConfirmed", "CommitConfirmed", "CetTimelockExpiredPriorOracleAttestation",
      "RefundTimelockExpired", "CetConfirmed", "RefundConfirmed" }

\* load_cfd_by_order_id: the contract with everything stored for it.
load_cfd_by_order_id(id) ==
    fold(CfdAggregate_new(id, load_cfd_row(id)), load_cfd_events(id, 0))

\* Cfd::handle: the new state, or None when the event changes nothing.  The
\* aggregate accepts an event once: not in a terminal state, and not an event
\* that is already in the contract's log.
Cfd_handle(cfd, rows, name) ==
    IF \/ cfd.state \in TerminalStates
       \/ \E i \in 1..Len(rows) : rows[i].name = name
    THEN None
    ELSE [ state |-> apply_state(cfd.role, name) ]

\* The row append_cfd_state stores.
cfd_state_row(id, name, at) ==
    [ cfd_id |-> id, name |-> name, commit_tx |-> FALSE, created_at |-> at ]

\* try_cet_publication: with the CET at hand (cet_ready) it is broadcast and
\* the change to PendingCet stored.
try_cet_publication(id, rows, cet_ready) ==
    IF cet_ready /\ \A i \in 1..Len(rows) :
                       rows[i].name # "CetTimelockExpiredPostOracleAttestation"
    THEN << cfd_state_row(id, "CetTimelockExpiredPostOracleAttestation", now + 2) >>
    ELSE << >>

\* The handler without its early exit: whatever Cfd::handle says is stored.
handle_monitoring_event_always_stores(id, name, cet_ready) ==
    /\ now + 2 <= MaxEvents
    /\ cfds[id] # None
    /\ events' = Append(events, cfd_state_row(id, name, now + 1))
    /\ now' = now + 1
    /\ ret' = [ op |-> "handle_monitoring_event", id |-> id, result |-> "Ok",
                cfd |-> None ]
    /\ UNCHANGED << cfds, aggregate_cache, closed_cfds, loaders >>
    /\ UNCHANGED actorVars
    /\ UNCHANGED serviceVars

\* After the state change is stored, a contract in OpenCommitted goes through
\* try_cet_publication; one that must be refunded has its refund transaction
\* broadcast, which stores nothing.
handle_monitoring_event(id, name, cet_ready) ==
    IF load_cfd_row(id) = None
    THEN /\ ret' = [ op |-> "handle_monitoring_event", id |-> id, result |-> "Err",
                     cfd |-> None ]
         /\ UNCHANGED << cfds, events, now, aggregate_cache, closed_cfds, loaders >>
         /\ UNCHANGED actorVars
         /\ UNCHANGED serviceVars
    ELSE LET cfd == load_cfd_by_order_id(id)
             new_state == Cfd_handle(cfd, events_of(id), name)
         IN  IF new_state = None
             THEN \* early exit if there was no state change
                  /\ ret' = [ op |-> "handle_monitoring_event", id |-> id,
                              result |-> "NoStateChange", cfd |-> None ]
                  /\ UNCHANGED << cfds, events, now, aggregate_cache, closed_cfds, loaders >>
                  /\ UNCHANGED actorVars
                  /\ UNCHANGED serviceVars
             ELSE LET stored == Append(events, cfd_state_row(id, name, now + 1))
                      sent == IF new_state.state = "OpenCommitted"
                              THEN try_cet_publication(id, events_of(id), cet_ready)
                              ELSE << >>
                  IN  /\ now + 2 <= MaxEvents
                      /\ events' = stored \o sent
                      /\ now' = now + 1 + Len(sent)
                      /\ ret' = [ op |-> "handle_monitoring_event", id |-> id,
                                  result |-> "Ok", cfd |-> None ]
                      /\ UNCHANGED << cfds, aggregate_cache, closed_cfds, loaders >>
                      /\ UNCHANGED actorVars
                      /\ UNCHANGED serviceVars

NextMonitor ==
    \/ \E id \in OrderIds, role \in Roles : insert_cfd(id, role)
    \/ \E id \in OrderIds, name \in MonitorKinds, cet_ready \in BOOLEAN :
          handle_monitoring_event(id, name, cet_ready)

SpecMonitor == Init /\ [][NextMonitor]_vars

(***************************************************************************)
(* collab_settlement/maker.rs: the maker's actor for the collaborative     *)
(* settlement protocol.  The contracts are open when the actor starts.     *)
(***************************************************************************)
RECURSIVE state_after(_, _)
state_after(state, names) ==
    IF names = << >> THEN state
    ELSE state_after(apply_state("Maker", Head(names)), Tail(names))

\* The state of the aggregate the command::Executor loads for a contract.
cfd_state(o) == state_after("Open", emitted[o])

\* command::Executor::execute with a command that yields the event `name`:
\* the event is stored for the contract.
execute(o, name) == [ emitted EXCEPT ![o] = Append(@, name) ]

\* Cfd::start_collab_settlement_maker: a settlement starts from Open only.
start_collab_settlement_maker(o) == cfd_state(o) = "Open"

\* Cfd::accept_collaborative_settlement_proposal: there is a proposal to accept.
accept_collaborative_settlement_proposal(o) ==
    cfd_state(o) = "IncomingSettlementProposal"

\* collab_settlement::protocol: emit_failed, emit_rejected, emit_completed.
emit_failed(o) == execute(o, "CollaborativeSettlementFailed")

emit_rejected(o) == execute(o, "CollaborativeSettlementRejected")

emit_completed(o) == execute(o, "CollaborativeSettlementCompleted")

\* A task of protocol_tasks: where its future stands (pc), the Failed value
\* it ended with, and whether it holds the finalized settlement transaction.
Task(proposal, pc, failed, settlement) ==
    [ proposal |-> proposal, pc |-> pc, failed |-> failed, settlement |-> settlement ]

task_at(o, pc) == protocol_tasks[o] # None /\ protocol_tasks[o].pc = pc

task_moves(o, pc, failed, settlement) ==
    protocol_tasks' = [ protocol_tasks EXCEPT ![o] =
                          Task(protocol_tasks[o].proposal, pc, failed, settlement) ]

\* handle(ProposeReceived): a Propose for contract o arrived on a new inbound
\* substream, from the contract's counterparty (peer_ok) or from another peer.
handle_ProposeReceived(o, peer_ok) ==
    /\ alive
    /\ substreams < MaxSubstreams
    /\ substreams' = substreams + 1
    /\ IF peer_ok /\ start_collab_settlement_maker(o)
       THEN /\ emitted' = execute(o, "CollaborativeSettlementStarted")
            /\ pending_protocols' = [ pending_protocols EXCEPT ![o] =
                                        [ proposal |-> substreams + 1 ] ]
       ELSE /\ emitted' = emit_failed(o)
            /\ UNCHANGED pending_protocols
    /\ UNCHANGED << protocol_tasks, alive >>
    /\ UNCHANGED storeVars
    /\ UNCHANGED serviceVars

\* handle(Accept): the pending protocol is taken out and its task spawned; the
\* Tasks stored before for the order id are dropped, which cancels them.
handle_Accept(o) ==
    /\ alive
    /\ pending_protocols[o] # None
    /\ pending_protocols' = [ pending_protocols EXCEPT ![o] = None ]
    /\ protocol_tasks' = [ protocol_tasks EXCEPT ![o] =
                             Task(pending_protocols[o].proposal, "accept", "none", FALSE) ]
    /\ UNCHANGED << emitted, substreams, alive >>
    /\ UNCHANGED storeVars
    /\ UNCHANGED serviceVars

\* handle(Reject).
handle_Reject(o) ==
    /\ alive
    /\ pending_protocols[o] # None
    /\ pending_protocols' = [ pending_protocols EXCEPT ![o] = None ]
    /\ emitted' = emit_rejected(o)
    /\ protocol_tasks' = [ protocol_tasks EXCEPT ![o] =
                             Task(pending_protocols[o].proposal, "send_reject", "none", FALSE) ]
    /\ UNCHANGED << substreams, alive >>
    /\ UNCHANGED storeVars
    /\ UNCHANGED serviceVars

\* The first await of the task without its `?`: the task goes on to send the
\* decision whether or not the acceptance was recorded.
task_accept_proposal_unchecked(o) ==
    /\ task_at(o, "accept")
    /\ IF accept_collaborative_settlement_proposal(o)
       THEN emitted' = execute(o, "CollaborativeSettlementProposalAccepted")
       ELSE UNCHANGED emitted
    /\ task_moves(o, "send_decision", "none", FALSE)
    /\ UNCHANGED << pending_protocols, substreams, alive >>
    /\ UNCHANGED storeVars
    /\ UNCHANGED serviceVars

\* The task of handle(Accept), one action per await.
task_accept_proposal(o) ==
    /\ task_at(o, "accept")
    /\ IF accept_collaborative_settlement_proposal(o)
       THEN /\ emitted' = execute(o, "CollaborativeSettlementProposalAccepted")
            /\ task_moves(o, "send_decision", "none", FALSE)
       ELSE /\ task_moves(o, "failed", "BeforeReceiving", FALSE)
            /\ UNCHANGED emitted
    /\ UNCHANGED << pending_protocols, substreams, alive >>
    /\ UNCHANGED storeVars
    /\ UNCHANGED serviceVars

task_send_decision(o, ok) ==
    /\ task_at(o, "send_decision")
    /\ IF ok THEN task_moves(o, "recv_signature", "none", FALSE)
             ELSE task_moves(o, "failed", "BeforeReceiving", FALSE)
    /\ UNCHANGED << emitted, pending_protocols, substreams, alive >>
    /\ UNCHANGED storeVars
    /\ UNCHANGED serviceVars

\* The dialer's signature arrives in time and the transaction is finalized, or
\* not (timeout, end of stream, a signature that does not verify).
task_recv_signature(o, ok) ==
    /\ task_at(o, "recv_signature")
    /\ IF ok THEN task_moves(o, "send_signature", "none", TRUE)
             ELSE task_moves(o, "failed", "BeforeReceiving", FALSE)
    /\ UNCHANGED << emitted, pending_protocols, substreams, alive >>
    /\ UNCHANGED storeVars
    /\ UNCHANGED serviceVars

\* A failed send of the listener's signature is Failed::AfterReceiving, which
\* carries the finalized settlement.
task_send_signature(o, ok) ==
    /\ task_at(o, "send_signature")
    /\ IF ok THEN task_moves(o, "emit_completed", "none", TRUE)
             ELSE task_moves(o, "failed", "AfterReceiving", TRUE)
    /\ UNCHANGED << emitted, pending_protocols, substreams, alive >>
    /\ UNCHANGED storeVars
    /\ UNCHANGED serviceVars

task_emit_completed(o) ==
    /\ task_at(o, "emit_completed")
    /\ emitted' = emit_completed(o)
    /\ task_moves(o, "done", "none", FALSE)
    /\ UNCHANGED << pending_protocols, substreams, alive >>
    /\ UNCHANGED storeVars
    /\ UNCHANGED serviceVars

\* The error handler of the task: both Failed values end in emit_failed, and
\* the settlement of Failed::AfterReceiving is dropped with the value.
task_err_handler(o) ==
    /\ task_at(o, "failed")
    /\ emitted' = emit_failed(o)
    /\ task_moves(o, "done", "none", FALSE)
    /\ UNCHANGED << pending_protocols, substreams, alive >>
    /\ UNCHANGED storeVars
    /\ UNCHANGED serviceVars

\* The task of handle(Reject): a failed send is logged.
task_send_reject(o, ok) ==
    /\ task_at(o, "send_reject")
    /\ task_moves(o, "done", "none", FALSE)
    /\ UNCHANGED << emitted, pending_protocols, substreams, alive >>
    /\ UNCHANGED storeVars
    /\ UNCHANGED serviceVars

\* The actor stops: stopped() does nothing, and the actor's fields are dropped,
\* its tasks with them.
stopped ==
    /\ alive
    /\ alive' = FALSE
    /\ pending_protocols' = [ o \in OrderIds |-> None ]
    /\ protocol_tasks' = [ o \in OrderIds |-> None ]
    /\ UNCHANGED << emitted, substreams >>
    /\ UNCHANGED storeVars
    /\ UNCHANGED serviceVars

NextSettlement ==
    \/ \E o \in OrderIds, peer_ok \in BOOLEAN : handle_ProposeReceived(o, peer_ok)
    \/ \E o \in OrderIds : handle_Accept(o)
    \/ \E o \in OrderIds : handle_Reject(o)
    \/ \E o \in OrderIds : task_accept_proposal(o)
    \/ \E o \in OrderIds, ok \in BOOLEAN : task_send_decision(o, ok)
    \/ \E o \in OrderIds, ok \in BOOLEAN : task_recv_signature(o, ok)
    \/ \E o \in OrderIds, ok \in BOOLEAN : task_send_signature(o, ok)
    \/ \E o \in OrderIds : task_emit_completed(o)
    \/ \E o \in OrderIds : task_err_handler(o)
    \/ \E o \in OrderIds, ok \in BOOLEAN : task_send_reject(o, ok)
    \/ stopped

SpecSettlement == Init /\ [][NextSettlement]_vars

\* The spawned tasks run to their end unless they are cancelled.
FairSettlement ==
    \A o \in OrderIds :
        /\ WF_vars(task_accept_proposal(o))
        /\ WF_vars(\E ok \in BOOLEAN : task_send_decision(o, ok))
        /\ WF_vars(\E ok \in BOOLEAN : task_recv_signature(o, ok))
        /\ WF_vars(\E ok \in BOOLEAN : task_send_signature(o, ok))
        /\ WF_vars(task_emit_completed(o))
        /\ WF_vars(task_err_handler(o))
        /\ WF_vars(\E ok \in BOOLEAN : task_send_reject(o, ok))

SpecSettlementFair == Init /\ [][NextSettlement]_vars /\ FairSettlement

(***************************************************************************)
(* process_manager.rs: the actor every aggregate event goes through.       *)
(***************************************************************************)
\* Events the process manager handles before the run ends.
MaxHandled == 2

\* Receivers of the process manager that may be gone while one Event is handled.
MaxDisconnected == 1

\* The message channels of process_manager::Actor.
Channels ==
    { "cfds_changed", "cfd_changed_metrics", "try_broadcast_transaction",
      "start_monitoring", "monitor_cet_finality",
      "monitor_collaborative_settlement", "monitor_attestation" }

\* A Dlc, as far as the process manager looks at it.
Dlcs == [ settlement_event_id : EventIds ]

\* The CfdEvents the process manager is given: ContractSetupCompleted and
\* RolloverCompleted carry dlc: Option<Dlc>, OracleAttestedPriorCetTimelock
\* carries commit_tx: Option<Transaction>.
CfdEvents ==
    { e \in [ id : OrderIds, name : EventKind, dlc : Dlcs \cup {None},
              commit_tx : BOOLEAN ] :
        /\ e.dlc # None => e.name \in {"ContractSetupCompleted", "RolloverCompleted"}
        /\ e.commit_tx => e.name = "OracleAttestedPriorCetTimelock" }

\* One message given to a channel.  kind is the TransactionKind of a
\* TryBroadcastTransaction, params the Dlc of a StartMonitoring, event_id the
\* event id of a MonitorAttestation.
Message(channel, order_id, kind, params, event_id) ==
    [ channel |-> channel, order_id |-> order_id, kind |-> kind,
      params |-> params, event_id |-> event_id ]

TryBroadcastTransaction(order_id, kind) ==
    Message("try_broadcast_transaction", order_id, kind, None, 0)

StartMonitoring(order_id, dlc) ==
    Message("start_monitoring", order_id, "none", dlc, 0)

MonitorAttestation(order_id, event_id) ==
    Message("monitor_attestation", order_id, "none", None, event_id)

MonitorCetFinality(order_id) ==
    Message("monitor_cet_finality", order_id, "none", None, 0)

MonitorCollaborativeSettlement(order_id) ==
    Message("monitor_collaborative_settlement", order_id, "none", None, 0)

CfdChanged(channel, order_id) ==
    Message(channel, order_id, "none", None, 0)

\* Step 2 of handle(Event): the sends of the match arm of the event, in the
\* order of the code.
post_process(r, event) ==
    CASE event.name = "ContractSetupCompleted" /\ event.dlc # None ->
            << TryBroadcastTransaction(event.id, "Lock"),
               StartMonitoring(event.id, event.dlc),
               MonitorAttestation(event.id, event.dlc.settlement_event_id) >>
      [] event.name = "CollaborativeSettlementCompleted" ->
            (IF r = "Maker"
             THEN << TryBroadcastTransaction(event.id, "CollaborativeClose") >>
             ELSE << >>)
            \o << MonitorCollaborativeSettlement(event.id) >>
      [] event.name \in { "CetTimelockExpiredPostOracleAttestation",
                          "OracleAttestedPostCetTimelock" } ->
            << MonitorCetFinality(event.id),
               TryBroadcastTransaction(event.id, "Cet") >>
      [] event.name = "OracleAttestedPriorCetTimelock" /\ event.commit_tx ->
            << TryBroadcastTransaction(event.id, "Commit") >>
      [] event.name = "ManualCommit" ->
            << TryBroadcastTransaction(event.id, "Commit") >>
      [] event.name = "OracleAttestedPriorCetTimelock" /\ ~event.commit_tx ->
            << MonitorCetFinality(event.id) >>
      [] event.name = "RolloverCompleted" /\ event.dlc # None ->
            << StartMonitoring(event.id, event.dlc),
               MonitorAttestation(event.id, event.dlc.settlement_event_id) >>
      [] event.name = "RefundTimelockExpired" ->
            << TryBroadcastTransaction(event.id, "Refund") >>
      [] OTHER -> << >>

\* Steps 3 and 4 of handle(Event).
update_projections(event) ==
    << CfdChanged("cfds_changed", event.id),
       CfdChanged("cfd_changed_metrics", event.id) >>

\* The sends of one handle call, each followed by `?`: a send to a receiver
\* that is gone returns an error and the handler returns with it.
RECURSIVE send_async_safe(_, _)
send_async_safe(msgs, disconnected) ==
    IF msgs = << >>
    THEN << >>
    ELSE IF Head(msgs).channel \in disconnected
         THEN << [ msg |-> Head(msgs), ok |-> FALSE ] >>
         ELSE << [ msg |-> Head(msgs), ok |-> TRUE ] >>
              \o send_async_safe(Tail(msgs), disconnected)

\* handle(Event) without the `?` after append_event: the sends are made
\* whether or not the event was stored.
handle_Event_ignoring_append_error(event, disconnected) ==
    /\ now < MaxHandled
    /\ LET sends == send_async_safe(
                        post_process(pm_role, event) \o update_projections(event),
                        disconnected)
       IN  /\ attempted' = sends
           /\ handled' = [ event |-> event, persisted |-> cfds[event.id] # None,
                           result |-> IF \A i \in 1..Len(sends) : sends[i].ok
                                      THEN "Ok" ELSE "Err" ]
           /\ IF cfds[event.id] = None
              THEN UNCHANGED << events, now >>
              ELSE /\ events' = Append(events, [ cfd_id |-> event.id, name |-> event.name,
                                                  commit_tx |-> event.commit_tx,
                                                  created_at |-> now + 1 ])
                   /\ now' = now + 1
    /\ settlement_event_id' =
          IF cfds[event.id] # None /\ event.dlc # None
          THEN [ settlement_event_id EXCEPT ![event.id] = event.dlc.settlement_event_id ]
          ELSE settlement_event_id
    /\ UNCHANGED << cfds, aggregate_cache, closed_cfds, loaders, ret >>
    /\ UNCHANGED actorVars
    /\ UNCHANGED << pm_role, oracleVars, supervisorVars, laterVars >>

\* handle(Event): append the event, post process it, update the projections.
handle_Event(event, disconnected) ==
    /\ now < MaxHandled
    /\ IF cfds[event.id] = None
       THEN /\ handled' = [ event |-> event, persisted |-> FALSE, result |-> "Err" ]
            /\ attempted' = << >>
            /\ UNCHANGED << events, now >>
       ELSE LET sends == send_async_safe(
                            post_process(pm_role, event) \o update_projections(event),
                            disconnected)
            IN  /\ events' = Append(events, [ cfd_id |-> event.id, name |-> event.name,
                                               commit_tx |-> event.commit_tx,
                                               created_at |-> now + 1 ])
                /\ now' = now + 1
                /\ attempted' = sends
                /\ handled' = [ event |-> event, persisted |-> TRUE,
                                result |-> IF \A i \in 1..Len(sends) : sends[i].ok
                                           THEN "Ok" ELSE "Err" ]
    /\ settlement_event_id' =
          IF cfds[event.id] # None /\ event.dlc # None
          THEN [ settlement_event_id EXCEPT ![event.id] = event.dlc.settlement_event_id ]
          ELSE settlement_event_id
    /\ UNCHANGED << cfds, aggregate_cache, closed_cfds, loaders, ret >>
    /\ UNCHANGED actorVars
    /\ UNCHANGED << pm_role, oracleVars, supervisorVars, laterVars >>

\* The process manager of a maker or of a taker, on a database that holds
\* contract 1 and no other contract.
InitProcessManager ==
    /\ pm_role \in Roles
    /\ cfds = [ o \in OrderIds |-> IF o = 1 THEN [ role |-> pm_role ] ELSE None ]
    /\ events = << >>
    /\ now = 0
    /\ aggregate_cache = [ o \in OrderIds |-> None ]
    /\ closed_cfds = [ o \in OrderIds |-> None ]
    /\ loaders = [ l \in Loaders |-> IdleLoader ]
    /\ ret = NoRet
    /\ emitted = [ o \in OrderIds |-> << >> ]
    /\ pending_protocols = [ o \in OrderIds |-> None ]
    /\ protocol_tasks = [ o \in OrderIds |-> None ]
    /\ substreams = 0
    /\ alive = TRUE
    /\ handled = None
    /\ attempted = << >>
    /\ settlement_event_id = [ o \in OrderIds |-> 0 ]
    /\ InitOracleActor
    /\ restart_policy = StopReasons
    /\ InitSupervisorActor
    /\ InitLater

NextProcessManager ==
    \E event \in CfdEvents :
        \E disconnected \in { d \in SUBSET Channels : Cardinality(d) <= MaxDisconnected } :
            handle_Event(event, disconnected)

SpecProcessManager == InitProcessManager /\ [][NextProcessManager]_vars

(***************************************************************************)
(* oracle.rs: the actor that fetches announcements and attestations.       *)
(***************************************************************************)
\* Fetch tasks of one kind running for one event id at a time.
MaxFetches == 1

\* How a GET of the oracle ends: the request fails, the status is not a
\* success, the body does not deserialize, or the value is there.
FetchOutcomes == { "RequestError", "StatusNotSuccess", "Undecodable", "Ok" }

\* db::load_all_cfd_ids: the contracts in the cfds table.
load_all_cfd_ids == { o \in OrderIds : cfds[o] # None }

\* The contract has an attestation applied already.
is_attested(o) ==
    \E i \in 1..Len(events) :
        /\ events[i].cfd_id = o
        /\ events[i].name \in { "OracleAttestedPriorCetTimelock",
                                "OracleAttestedPostCetTimelock" }

\* Cfd::decrypt_cet: the event the attestation of event id `id` yields for the
\* contract, "none" for an attestation that is not the one of its DLC and for a
\* contract that has one applied.
decrypt_cet(o, id) ==
    IF settlement_event_id[o] = id /\ ~is_attested(o)
    THEN "OracleAttestedPriorCetTimelock"
    ELSE "none"

\* The rows the executor stores for the contracts in `ids`, in ascending order
\* of the contracts.
RECURSIVE attested_rows(_, _, _)
attested_rows(ids, id, at) ==
    IF ids = {}
    THEN << >>
    ELSE LET o == CHOOSE x \in ids : \A y \in ids : x <= y
         IN  << [ cfd_id |-> o, name |-> decrypt_cet(o, id), commit_tx |-> FALSE,
                  created_at |-> at + 1 ] >>
             \o attested_rows(ids \ {o}, id, at + 1)

\* handle_monitor_attestation.
handle_monitor_attestation(event_id) ==
    /\ pending_attestations' = pending_attestations \cup {event_id}
    /\ UNCHANGED << announcements, announcement_fetches, attestation_fetches,
                    new_attestations, likely_occured, decrypt_calls, last_fetch >>
    /\ UNCHANGED << storeVars, actorVars, pmVars, settlement_event_id, supervisorVars, laterVars >>

\* The event ids ensure_having_announcements asks for: the coming ones the
\* actor has no announcement of.
announcements_wanted == { e \in EventIds : e \notin likely_occured /\ e \notin announcements }

\* The event ids update_pending_attestations asks for: the pending ones that
\* have likely occurred.
attestations_wanted == { e \in pending_attestations : e \in likely_occured }

\* A sync that spawns one attestation fetch task for every pending event id
\* whether or not its outcome time has passed -- and none for those it has
\* passed for.
update_pending_attestations_before_outcome ==
    [ e \in EventIds |->
        IF e \in pending_attestations /\ e \notin likely_occured
        THEN attestation_fetches[e] + 1
        ELSE attestation_fetches[e] ]

\* update_pending_attestations: one fetch task more for each event id wanted.
update_pending_attestations ==
    [ e \in EventIds |->
        IF e \in attestations_wanted
        THEN attestation_fetches[e] + 1
        ELSE attestation_fetches[e] ]

\* handle_sync: ensure_having_announcements, then update_pending_attestations.
handle_sync ==
    /\ \A e \in announcements_wanted : announcement_fetches[e] < MaxFetches
    /\ \A e \in attestations_wanted :
          attestation_fetches[e] + new_attestations[e] < MaxFetches
    /\ announcement_fetches' =
          [ e \in EventIds |->
              IF e \in announcements_wanted
              THEN announcement_fetches[e] + 1
              ELSE announcement_fetches[e] ]
    /\ attestation_fetches' = update_pending_attestations
    /\ UNCHANGED << announcements, pending_attestations, new_attestations,
                    likely_occured, decrypt_calls, last_fetch >>
    /\ UNCHANGED << storeVars, actorVars, pmVars, settlement_event_id, supervisorVars, laterVars >>

\* The task spawned by ensure_having_announcements ends; a fetched
\* announcement is sent as NewAnnouncementFetched and stored by
\* handle_new_announcement_fetched.
fetch_announcement(e, outcome) ==
    /\ announcement_fetches[e] > 0
    /\ announcement_fetches' = [ announcement_fetches EXCEPT ![e] = @ - 1 ]
    /\ announcements' = IF outcome = "Ok" THEN announcements \cup {e} ELSE announcements
    /\ UNCHANGED << pending_attestations, attestation_fetches, new_attestations,
                    likely_occured, decrypt_calls, last_fetch >>
    /\ UNCHANGED << storeVars, actorVars, pmVars, settlement_event_id, supervisorVars, laterVars >>

\* The task spawned by update_pending_attestations ends: only a fetched and
\* decoded attestation is sent to the actor, any failure is logged.
fetch_attestation(e, outcome) ==
    /\ attestation_fetches[e] > 0
    /\ attestation_fetches' = [ attestation_fetches EXCEPT ![e] = @ - 1 ]
    /\ new_attestations' =
          IF outcome = "Ok"
          THEN [ new_attestations EXCEPT ![e] = @ + 1 ]
          ELSE new_attestations
    /\ last_fetch' = [ id |-> e, outcome |-> outcome ]
    /\ UNCHANGED << announcements, pending_attestations, announcement_fetches,
                    likely_occured, decrypt_calls >>
    /\ UNCHANGED << storeVars, actorVars, pmVars, settlement_event_id, supervisorVars, laterVars >>

\* A handler that executes decrypt_cet only for the first contract.
handle_new_attestation_fetched_first_only(id, failing) ==
    LET ids == { o \in load_all_cfd_ids : \A x \in load_all_cfd_ids : o <= x }
        stored == { o \in ids : o \notin failing /\ decrypt_cet(o, id) # "none" }
    IN  /\ new_attestations[id] > 0
        /\ new_attestations' = [ new_attestations EXCEPT ![id] = @ - 1 ]
        /\ decrypt_calls' = { [ order_id |-> o, attestation |-> id,
                                 ok |-> o \notin failing ] : o \in ids }
        /\ events' = events \o attested_rows(stored, id, now)
        /\ now' = now + Cardinality(stored)
        /\ pending_attestations' = pending_attestations \ {id}
        /\ UNCHANGED << announcements, announcement_fetches, attestation_fetches,
                        likely_occured, last_fetch >>
        /\ UNCHANGED << cfds, aggregate_cache, closed_cfds, loaders, ret >>
        /\ UNCHANGED << actorVars, pmVars, settlement_event_id, supervisorVars, laterVars >>

\* handle_new_attestation_fetched: decrypt_cet is executed for every contract
\* of load_all_cfd_ids, a failed execution (those in `failing`) is logged, and
\* the event id leaves the pending set.
handle_new_attestation_fetched(id, failing) ==
    LET ids == load_all_cfd_ids
        stored == { o \in ids : o \notin failing /\ decrypt_cet(o, id) # "none" }
    IN  /\ new_attestations[id] > 0
        /\ new_attestations' = [ new_attestations EXCEPT ![id] = @ - 1 ]
        /\ decrypt_calls' = { [ order_id |-> o, attestation |-> id,
                                 ok |-> o \notin failing ] : o \in ids }
        /\ events' = events \o attested_rows(stored, id, now)
        /\ now' = now + Cardinality(stored)
        /\ pending_attestations' = pending_attestations \ {id}
        /\ UNCHANGED << announcements, announcement_fetches, attestation_fetches,
                        likely_occured, last_fetch >>
        /\ UNCHANGED << cfds, aggregate_cache, closed_cfds, loaders, ret >>
        /\ UNCHANGED << actorVars, pmVars, settlement_event_id, supervisorVars, laterVars >>

\* The outcome time of an event passes (BitMexPriceEventId::has_likely_occured
\* becomes true).
outcome_time_passes(e) ==
    /\ e \notin likely_occured
    /\ likely_occured' = likely_occured \cup {e}
    /\ UNCHANGED << announcements, pending_attestations, announcement_fetches,
                    attestation_fetches, new_attestations, decrypt_calls, last_fetch >>
    /\ UNCHANGED << storeVars, actorVars, pmVars, settlement_event_id, supervisorVars, laterVars >>

\* The oracle actor started on a database that holds both contracts, each
\* with or without a DLC in its events.
InitOracle ==
    /\ settlement_event_id \in [ OrderIds -> EventIds \cup {0} ]
    /\ cfds = [ o \in OrderIds |-> [ role |-> "Maker" ] ]
    /\ events = SelectSeq([ o \in OrderIds |->
                              [ cfd_id |-> o, name |-> "ContractSetupCompleted",
                                commit_tx |-> FALSE, created_at |-> o - NumOrders ] ],
                          LAMBDA r : settlement_event_id[r.cfd_id] # 0)
    /\ now = 0
    /\ aggregate_cache = [ o \in OrderIds |-> None ]
    /\ closed_cfds = [ o \in OrderIds |-> None ]
    /\ loaders = [ l \in Loaders |-> IdleLoader ]
    /\ ret = NoRet
    /\ emitted = [ o \in OrderIds |-> << >> ]
    /\ pending_protocols = [ o \in OrderIds |-> None ]
    /\ protocol_tasks = [ o \in OrderIds |-> None ]
    /\ substreams = 0
    /\ alive = TRUE
    /\ pm_role = "Maker"
    /\ handled = None
    /\ attempted = << >>
    /\ InitOracleActor
    /\ restart_policy = StopReasons
    /\ InitSupervisorActor
    /\ InitLater

NextOracle ==
    \/ \E e \in EventIds : handle_monitor_attestation(e)
    \/ handle_sync
    \/ \E e \in EventIds, outcome \in FetchOutcomes : fetch_announcement(e, outcome)
    \/ \E e \in EventIds, outcome \in FetchOutcomes : fetch_attestation(e, outcome)
    \/ \E e \in EventIds, failing \in SUBSET OrderIds :
          handle_new_attestation_fetched(e, failing)
    \/ \E e \in EventIds : outcome_time_passes(e)

SpecOracle == InitOracle /\ [][NextOracle]_vars

(***************************************************************************)
(* supervisor.rs: the actor that restarts the actor it supervises.         *)
(***************************************************************************)
\* Instances of the supervised actor the supervisor spawns before the run ends.
MaxSpawns == 4

\* spawn_new: a new instance is constructed and attached, num_spawns counts it.
spawn_new(m) == [ m EXCEPT !.num_spawns = @ + 1 ]

\* xtra::Actor::started of the supervisor: the first instance.
started ==
    /\ metrics.num_spawns = 0
    /\ metrics' = spawn_new(metrics)
    /\ supervised' = TRUE
    /\ UNCHANGED << restart_policy, notification >>
    /\ UNCHANGED << storeVars, actorVars, pmVars, settlement_event_id, oracleVars, laterVars >>

\* The task of spawn_new: the instance stopped with a reason, Stopped is sent
\* to the supervisor.
actor_stopped(reason) ==
    /\ supervised
    /\ supervised' = FALSE
    /\ notification' = [ message |-> "Stopped", reason |-> reason ]
    /\ UNCHANGED << restart_policy, metrics >>
    /\ UNCHANGED << storeVars, actorVars, pmVars, settlement_event_id, oracleVars, laterVars >>

\* The task of spawn_new: the instance panicked (catch_unwind), Panicked is sent
\* to the supervisor.
actor_panicked ==
    /\ supervised
    /\ supervised' = FALSE
    /\ notification' = [ message |-> "Panicked", reason |-> "none" ]
    /\ UNCHANGED << restart_policy, metrics >>
    /\ UNCHANGED << storeVars, actorVars, pmVars, settlement_event_id, oracleVars, laterVars >>

\* handle(Stopped): the restart policy is asked with the reason.
handle_Stopped ==
    /\ notification # None
    /\ notification.message = "Stopped"
    /\ metrics.num_spawns < MaxSpawns
    /\ LET should_restart == notification.reason \in restart_policy
       IN  IF should_restart
           THEN /\ metrics' = spawn_new(metrics)
                /\ supervised' = TRUE
           ELSE UNCHANGED << metrics, supervised >>
    /\ notification' = None
    /\ UNCHANGED restart_policy
    /\ UNCHANGED << storeVars, actorVars, pmVars, settlement_event_id, oracleVars, laterVars >>

\* Handler<Panicked>: num_panics counts the panic and a new instance is spawned.
handle_Panicked ==
    /\ notification # None
    /\ notification.message = "Panicked"
    /\ metrics.num_spawns < MaxSpawns
    /\ metrics' = spawn_new([ metrics EXCEPT !.num_panics = @ + 1 ])
    /\ supervised' = TRUE
    /\ notification' = None
    /\ UNCHANGED restart_policy
    /\ UNCHANGED << storeVars, actorVars, pmVars, settlement_event_id, oracleVars, laterVars >>

\* A supervisor made by with_policy, with any restart policy.
InitSupervisor ==
    /\ cfds = [ o \in OrderIds |-> None ]
    /\ events = << >>
    /\ now = 0
    /\ aggregate_cache = [ o \in OrderIds |-> None ]
    /\ closed_cfds = [ o \in OrderIds |-> None ]
    /\ loaders = [ l \in Loaders |-> IdleLoader ]
    /\ ret = NoRet
    /\ emitted = [ o \in OrderIds |-> << >> ]
    /\ pending_protocols = [ o \in OrderIds |-> None ]
    /\ protocol_tasks = [ o \in OrderIds |-> None ]
    /\ substreams = 0
    /\ alive = TRUE
    /\ pm_role = "Maker"
    /\ handled = None
    /\ attempted = << >>
    /\ settlement_event_id = [ o \in OrderIds |-> 0 ]
    /\ InitOracleActor
    /\ restart_policy \in SUBSET StopReasons
    /\ InitSupervisorActor
    /\ InitLater

NextSupervisor ==
    \/ started
    \/ \E reason \in StopReasons : actor_stopped(reason)
    \/ actor_panicked
    \/ handle_Stopped
    \/ handle_Panicked

SpecSupervisor == InitSupervisor /\ [][NextSupervisor]_vars

\* The context whose mailbox an instance is attached to when every restart
\* makes a context of its own: only the first instance reads the mailbox of
\* the address handed out.
attach_to_new_context(n) == n - 1

\* self.context.attach(actor) in spawn_new: the n-th instance is attached to
\* the context made in with_policy, 0, whose address was handed out.
attach(n) == 0

\* A message is sent to the address handed out by with_policy; it is queued in
\* the mailbox of the context, whether or not an instance is running.
address_send(m) ==
    /\ m = Len(mailbox) + Cardinality({ h \in MsgIds : handled_by[h] # 0 }) + 1
    /\ m <= MaxMessages
    /\ mailbox' = Append(mailbox, m)
    /\ UNCHANGED handled_by
    /\ UNCHANGED notMailboxVars

\* The running instance takes the next message of the mailbox it is attached
\* to and handles it.
instance_handles ==
    /\ supervised
    /\ attach(metrics.num_spawns) = 0
    /\ mailbox # << >>
    /\ handled_by' = [ handled_by EXCEPT ![Head(mailbox)] = metrics.num_spawns ]
    /\ mailbox' = Tail(mailbox)
    /\ UNCHANGED notMailboxVars

NextRestart ==
    \/ NextSupervisor
    \/ \E m \in MsgIds : address_send(m)
    \/ instance_handles

\* The supervisor handles the messages of its tasks, and a running instance
\* the messages of its mailbox.
FairRestart ==
    /\ WF_vars(handle_Stopped)
    /\ WF_vars(handle_Panicked)
    /\ WF_vars(instance_handles)

SpecRestart == InitSupervisor /\ [][NextRestart]_vars /\ FairRestart

(***************************************************************************)
(* connection.rs: the taker's connection to the maker and the reconnect    *)
(* loop.                                                                   *)
(***************************************************************************)
\* Half of the maker's heartbeat interval, the unit of the clock.
HalfInterval == 1

\* The clock stops here.
MaxClock == 6

\* The addresses of the maker the reconnect loop is given.
NumAddresses == 2

MAX_RECONNECT_INTERVAL_SECONDS == 60

\* Actor::new.
maker_heartbeat_interval == 2 * HalfInterval
heartbeat_measuring_rate == maker_heartbeat_interval \div 2
heartbeat_timeout == maker_heartbeat_interval * 2

\* Wire versions; the taker proposes Version::LATEST.
Versions == { "LATEST", "Other" }
proposed_version == "LATEST"

\* How a connection attempt goes up to the first message of the maker: the TCP
\* connect or the handshake fails or times out, no first message comes, the
\* first message is not a Hello, or it is a Hello.
ConnectOutcomes == { "ConnectFailed", "NoHello", "UnexpectedMessage", "Hello" }

\* rand's gen_range(low, high): low inclusive, high exclusive.
gen_range(low, high) == low..(high - 1)

\* State::update_last_pulse_time: the time since the last pulse, or an error
\* when disconnected.
update_last_pulse_time(st, t) ==
    IF st.connected
    THEN [ ok |-> TRUE, time_delta |-> t - st.last_pulse,
           state |-> [ st EXCEPT !.last_pulse = t, !.pulsed = TRUE ] ]
    ELSE [ ok |-> FALSE, time_delta |-> 0, state |-> st ]

\* The comparison turned strict: a heartbeat exactly `timeout` old is still
\* good.
disconnect_if_last_heartbeat_older_than_strictly(st, t, timeout) ==
    IF ~st.connected
    THEN [ disconnected |-> FALSE, state |-> st ]
    ELSE IF t - st.last_heartbeat <= timeout
         THEN [ disconnected |-> FALSE, state |-> st ]
         ELSE [ disconnected |-> TRUE, state |-> Disconnected ]

\* State::disconnect_if_last_heartbeat_older_than.
disconnect_if_last_heartbeat_older_than(st, t, timeout) ==
    IF ~st.connected
    THEN [ disconnected |-> FALSE, state |-> st ]
    ELSE IF t - st.last_heartbeat < timeout
         THEN [ disconnected |-> FALSE, state |-> st ]
         ELSE [ disconnected |-> TRUE, state |-> Disconnected ]

\* handle_measure_pulse.  The MeasurePulse messages come from the
\* send_interval task kept in State::Connected: the first at once, each next
\* one no sooner than heartbeat_measuring_rate after the handler returned.
handle_measure_pulse ==
    /\ conn_state.connected
    /\ ~conn_state.pulsed \/ clock >= conn_state.last_pulse + heartbeat_measuring_rate
    /\ LET pulse == update_last_pulse_time(conn_state, clock)
       IN  IF pulse.ok /\ pulse.time_delta >= maker_heartbeat_interval
           THEN /\ conn_state' = pulse.state
                /\ UNCHANGED << status, changed >>
           ELSE LET r == disconnect_if_last_heartbeat_older_than(
                             pulse.state, clock, heartbeat_timeout)
                IN  /\ conn_state' = r.state
                    /\ IF r.disconnected
                       THEN /\ status' = Offline("None")
                            /\ changed' = TRUE
                       ELSE UNCHANGED << status, changed >>
    /\ UNCHANGED << clock, reconnect >>
    /\ UNCHANGED notConnVars

\* handle_wire_message for a Heartbeat read from the maker's stream (the
\* stream task lives in State::Connected).
handle_wire_message_Heartbeat ==
    /\ conn_state.connected
    /\ conn_state' = [ conn_state EXCEPT !.last_heartbeat = clock ]
    /\ UNCHANGED << status, changed, clock, reconnect >>
    /\ UNCHANGED notConnVars

\* Time passes.
tick ==
    /\ clock < MaxClock
    /\ clock' = clock + 1
    /\ UNCHANGED << conn_state, status, changed, reconnect >>
    /\ UNCHANGED notConnVars

\* A handle_connect that does not compare the versions.
handle_connect_any_version(st, t, outcome, actual_version) ==
    IF outcome # "Hello"
    THEN [ ok |-> FALSE, state |-> st, published |-> None ]
    ELSE [ ok |-> TRUE,
           state |-> [ connected |-> TRUE, last_heartbeat |-> t, last_pulse |-> t,
                       pulsed |-> FALSE ],
           published |-> Online ]

\* handle_connect: the result, the state and the status published (None: no
\* status is published).
handle_connect(st, t, outcome, actual_version) ==
    IF outcome # "Hello"
    THEN [ ok |-> FALSE, state |-> st, published |-> None ]
    ELSE IF proposed_version # actual_version
         THEN [ ok |-> FALSE, state |-> st,
                published |-> Offline("VersionNegotiationFailed") ]
         ELSE [ ok |-> TRUE,
                state |-> [ connected |-> TRUE, last_heartbeat |-> t, last_pulse |-> t,
                            pulsed |-> FALSE ],
                published |-> Online ]

\* A loop that goes on to connect whatever the status it reads.
reconnects_on(connection_status) == TRUE

\* connect: `matches!(connection_status, ConnectionStatus::Offline { .. })`.
is_offline(connection_status) == ~connection_status.online

\* connect: the loop reads the status and enters the connect loop or waits for
\* the status to change.
reconnect_borrow ==
    /\ reconnect.pc = "borrow"
    /\ reconnect' = IF is_offline(status)
                    THEN [ pc |-> "connect", address |-> 1, seconds |-> 0 ]
                    ELSE [ pc |-> "changed", address |-> 0, seconds |-> 0 ]
    /\ UNCHANGED << conn_state, status, changed, clock >>
    /\ UNCHANGED notConnVars

\* connect: Connect for the next address is sent to the actor and answered by
\* handle_connect.
reconnect_connect(outcome, actual_version) ==
    /\ reconnect.pc = "connect"
    /\ LET r == handle_connect(conn_state, clock, outcome, actual_version)
       IN  /\ conn_state' = r.state
           /\ IF r.published = None
              THEN UNCHANGED << status, changed >>
              ELSE /\ status' = r.published
                   /\ changed' = TRUE
           /\ reconnect' =
                 IF r.ok
                 THEN [ pc |-> "changed", address |-> 0, seconds |-> 0 ]
                 ELSE IF reconnect.address < NumAddresses
                      THEN [ reconnect EXCEPT !.address = @ + 1 ]
                      ELSE [ pc |-> "retry", address |-> 0, seconds |-> 0 ]
    /\ UNCHANGED clock
    /\ UNCHANGED notConnVars

\* connect: every address has failed, the loop draws the seconds to sleep.
reconnect_sleep(seconds) ==
    /\ reconnect.pc = "retry"
    /\ reconnect' = [ pc |-> "sleep", address |-> 0, seconds |-> seconds ]
    /\ UNCHANGED << conn_state, status, changed, clock >>
    /\ UNCHANGED notConnVars

\* connect: the sleep is over, the next round of attempts starts.
reconnect_sleep_done ==
    /\ reconnect.pc = "sleep"
    /\ reconnect' = [ reconnect EXCEPT !.pc = "connect", !.address = 1 ]
    /\ UNCHANGED << conn_state, status, changed, clock >>
    /\ UNCHANGED notConnVars

\* connect: `changed().await` returns once the channel holds a value not seen.
reconnect_changed ==
    /\ reconnect.pc = "changed"
    /\ changed
    /\ changed' = FALSE
    /\ reconnect' = [ pc |-> "borrow", address |-> 0, seconds |-> 0 ]
    /\ UNCHANGED << conn_state, status, clock >>
    /\ UNCHANGED notConnVars

\* The taker's connection actor and its reconnect loop, nothing else running.
InitConnection ==
    /\ Init

NextConnection ==
    \/ handle_measure_pulse
    \/ handle_wire_message_Heartbeat
    \/ tick
    \/ reconnect_borrow
    \/ \E outcome \in ConnectOutcomes, actual_version \in Versions :
          reconnect_connect(outcome, actual_version)
    \/ \E seconds \in gen_range(5, MAX_RECONNECT_INTERVAL_SECONDS) :
          reconnect_sleep(seconds)
    \/ reconnect_sleep_done
    \/ reconnect_changed

SpecConnection == InitConnection /\ [][NextConnection]_vars

\* The reconnect loop is a task that runs on: it is not held up for ever before
\* reading the status, sending Connect, waking up, or noticing a new status.
FairConnection ==
    /\ WF_vars(reconnect_borrow)
    /\ WF_vars(\E outcome \in ConnectOutcomes, actual_version \in Versions :
                  reconnect_connect(outcome, actual_version))
    /\ WF_vars(\E seconds \in gen_range(5, MAX_RECONNECT_INTERVAL_SECONDS) :
                  reconnect_sleep(seconds))
    /\ WF_vars(reconnect_sleep_done)
    /\ WF_vars(reconnect_changed)

SpecConnectionFair == InitConnection /\ [][NextConnection]_vars /\ FairConnection

(***************************************************************************)
(* Rollover: daemon-tests/tests/main/rollover.rs and                       *)
(* sqlite-db/src/rollover/overwrite.rs.                                    *)
(***************************************************************************)
\* The rollovers one contract goes through.
MaxRollovers == 4

\* The funding fee of one hour, in satoshi.
FundingFeePerHour == 1

\* The hours one rollover of the tests is charged for: a full term, the
\* settlement events of the oracle data having expired.
FullTermHours == 24

counterparty(r) == IF r = "Maker" THEN "Taker" ELSE "Maker"

\* The position of a side.
position_of(r, maker_position) ==
    IF r = "Maker"
    THEN maker_position
    ELSE IF maker_position = "Long" THEN "Short" ELSE "Long"

\* The funding fee a position is charged for the hours: the long side pays it,
\* the short side receives it.
funding_fee(position, hours) ==
    IF position = "Long"
    THEN hours * FundingFeePerHour
    ELSE 0 - (hours * FundingFeePerHour)

\* FeeCalculator::complete_fee_for_rollover_hours: the fees expected on the
\* maker's and the taker's side.
complete_fee_for_rollover_hours(maker_position, hours) ==
    [ r \in Roles |-> funding_fee(position_of(r, maker_position), hours) ]

\* The hours a rollover charges.
hours_to_charge == FullTermHours

\* first_cfd().accumulated_fees of both sides.
accumulated_fees == [ r \in Roles |-> rollover_cfd[r].complete_fee ]

\* latest_commit_txid, latest_settlement_event_id.
latest_commit_txid(r) == rollover_cfd[r].dlc.commit_txid
latest_settlement_event_id(r) == rollover_cfd[r].dlc.settlement_event_id

NoBase == [ found |-> FALSE, commit_txid |-> 0, settlement_event_id |-> 0,
            complete_fee |-> 0 ]

\* A lookup that takes the complete fee of the latest DLC whatever DLC the
\* rollover starts from.
base_dlc_params_latest_fee(cfd, from_commit_txid, from_settlement_event_id) ==
    IF \/ cfd.dlc.commit_txid = from_commit_txid
       \/ \E q \in cfd.dlc.revoked_commit : q.txid = from_commit_txid
    THEN [ found |-> TRUE, commit_txid |-> from_commit_txid,
           settlement_event_id |-> from_settlement_event_id,
           complete_fee |-> cfd.complete_fee ]
    ELSE NoBase

\* The DLC a rollover starts from, looked up by the commit txid and the
\* settlement event the taker proposed: the latest DLC, or one of the revoked
\* ones, with the complete fee recorded for it.
base_dlc_params(cfd, from_commit_txid, from_settlement_event_id) ==
    IF /\ cfd.dlc.commit_txid = from_commit_txid
       /\ cfd.dlc.settlement_event_id = from_settlement_event_id
    THEN [ found |-> TRUE, commit_txid |-> from_commit_txid,
           settlement_event_id |-> from_settlement_event_id,
           complete_fee |-> cfd.complete_fee ]
    ELSE IF \E q \in cfd.dlc.revoked_commit :
                /\ q.txid = from_commit_txid
                /\ q.settlement_event_id = from_settlement_event_id
         THEN LET q == CHOOSE q \in cfd.dlc.revoked_commit :
                           /\ q.txid = from_commit_txid
                           /\ q.settlement_event_id = from_settlement_event_id
              IN  [ found |-> TRUE, commit_txid |-> q.txid,
                    settlement_event_id |-> q.settlement_event_id,
                    complete_fee |-> q.complete_fee ]
         ELSE NoBase

\* The RevokedCommit of the DLC rolled over from: the counterparty's
\* revocation secret of that commit transaction.
revoked_commit_of(r, base) ==
    [ txid |-> base.commit_txid,
      revocation_sk_theirs |-> << counterparty(r), base.commit_txid >>,
      settlement_event_id |-> base.settlement_event_id,
      complete_fee |-> base.complete_fee ]

\* A rollover that charges nothing.
roll_over_without_fee(r, cfd, base, txid, oracle_event_id, maker_position) ==
    [ dlc |-> [ commit_txid |-> txid,
                settlement_event_id |-> oracle_event_id,
                revocation |-> << r, txid >>,
                revoked_commit |-> cfd.dlc.revoked_commit
                                      \cup { revoked_commit_of(r, base) } ],
      complete_fee |-> base.complete_fee ]

\* The rollover protocol and CompleteRollover on one side: a DLC with a new
\* commit transaction for the announced event, the DLC rolled over from
\* revoked, one funding fee added to the fee of the DLC rolled over from.
roll_over(r, cfd, base, txid, oracle_event_id, maker_position) ==
    [ dlc |-> [ commit_txid |-> txid,
                settlement_event_id |-> oracle_event_id,
                revocation |-> << r, txid >>,
                revoked_commit |-> cfd.dlc.revoked_commit
                                      \cup { revoked_commit_of(r, base) } ],
      complete_fee |-> base.complete_fee
                          + funding_fee(position_of(r, maker_position), hours_to_charge) ]

\* rollover/delete.rs: the rollover rows of the contract are deleted.
delete(tables) == NoRolloverData

\* insert_rollover_completed_event_data: the row of a DLC.
rollover_completed_event_data_row(dlc, fee, complete_fee) ==
    [ settlement_event_id |-> dlc.settlement_event_id,
      revocation_secret |-> dlc.revocation,
      commit_tx |-> dlc.commit_txid,
      funding_fee |-> fee,
      complete_fee |-> complete_fee ]

\* An overwrite that keeps the rows of the previous rollover.
overwrite_without_delete(tables, dlc, fee, complete_fee) ==
    [ rollover_completed_event_data |->
          tables.rollover_completed_event_data
              \cup { rollover_completed_event_data_row(dlc, fee, complete_fee) },
      revoked_commit_transactions |->
          tables.revoked_commit_transactions \cup dlc.revoked_commit,
      open_cets |->
          tables.open_cets \cup { << dlc.settlement_event_id, dlc.commit_txid >> } ]

\* An overwrite whose delete leaves the CETs of the previous rollover.
overwrite_keeping_cets(tables, dlc, fee, complete_fee) ==
    [ rollover_completed_event_data |->
          { rollover_completed_event_data_row(dlc, fee, complete_fee) },
      revoked_commit_transactions |-> dlc.revoked_commit,
      open_cets |->
          tables.open_cets \cup { << dlc.settlement_event_id, dlc.commit_txid >> } ]

\* overwrite: delete, then insert the row of the DLC, its revoked commits and
\* its CETs.
overwrite(tables, dlc, fee, complete_fee) ==
    LET deleted == delete(tables)
    IN  [ rollover_completed_event_data |->
              deleted.rollover_completed_event_data
                  \cup { rollover_completed_event_data_row(dlc, fee, complete_fee) },
          revoked_commit_transactions |->
              deleted.revoked_commit_transactions \cup dlc.revoked_commit,
          open_cets |->
              deleted.open_cets \cup { << dlc.settlement_event_id, dlc.commit_txid >> } ]

\* rollover/load.rs: the DLC, the funding fee and the complete fee of the
\* rollover row stored for the contract, the DLC with the revoked commits
\* stored for it; None without a row.
load(tables) ==
    IF tables.rollover_completed_event_data = {}
    THEN None
    ELSE LET row == CHOOSE row \in tables.rollover_completed_event_data : TRUE
         IN  [ dlc |-> [ commit_txid |-> row.commit_tx,
                         settlement_event_id |-> row.settlement_event_id,
                         revocation |-> row.revocation_secret,
                         revoked_commit |-> tables.revoked_commit_transactions ],
               funding_fee |-> row.funding_fee,
               complete_fee |-> row.complete_fee ]

\* A step of the test and the fees both sides show after it.
rollover_step(kind) == [ kind |-> kind, fees |-> accumulated_fees' ]

\* The test keeps the taker's latest commit txid, settlement event id, DLC and
\* fees.
save_taker_latest ==
    /\ taker_saved = None
    /\ taker_saved' = [ dlc |-> rollover_cfd["Taker"].dlc,
                        complete_fee |-> rollover_cfd["Taker"].complete_fee,
                        at |-> Len(rollover_steps) ]
    /\ UNCHANGED << position_maker, rollover_cfd, rollover_tables, next_txid,
                    rollover_steps >>
    /\ UNCHANGED notRolloverVars

\* append_rollover_event: the taker falls behind, its latest DLC is again the
\* one the test kept.
append_rollover_event ==
    /\ taker_saved # None
    /\ rollover_cfd["Taker"].dlc # taker_saved.dlc
    /\ rollover_cfd' = [ rollover_cfd EXCEPT
                            !["Taker"] = [ dlc |-> taker_saved.dlc,
                                           complete_fee |-> taker_saved.complete_fee ] ]
    /\ rollover_tables' = [ rollover_tables EXCEPT
                               !["Taker"] = overwrite(@, taker_saved.dlc, 0,
                                                      taker_saved.complete_fee) ]
    /\ rollover_steps' = Append(rollover_steps, rollover_step("append"))
    /\ UNCHANGED << position_maker, next_txid, taker_saved >>
    /\ UNCHANGED notRolloverVars

\* The from_params_taker a rollover of the test can be given.
FromParamsTaker ==
    { None } \cup ( IF taker_saved = None
                    THEN {}
                    ELSE { [ commit_txid |-> taker_saved.dlc.commit_txid,
                             settlement_event_id |-> taker_saved.dlc.settlement_event_id ] } )

\* rollover: the oracle data is mocked, the taker triggers the rollover from
\* its latest DLC or from the given one, both sides go through RolloverSetup
\* back to Open and the RolloverCompleted data is written on both sides.
rollover(oracle_data, from_params_taker) ==
    /\ next_txid <= MaxRollovers
    /\ LET from == IF from_params_taker = None
                   THEN [ commit_txid |-> latest_commit_txid("Taker"),
                          settlement_event_id |-> latest_settlement_event_id("Taker") ]
                   ELSE from_params_taker
           base == [ r \in Roles |->
                       base_dlc_params(rollover_cfd[r], from.commit_txid,
                                       from.settlement_event_id) ]
           new == [ r \in Roles |->
                      roll_over(r, rollover_cfd[r], base[r], next_txid,
                                settlement_announcement(oracle_data), position_maker) ]
       IN  /\ \A r \in Roles : base[r].found
           /\ rollover_cfd' = new
           /\ rollover_tables' =
                 [ r \in Roles |->
                     overwrite(rollover_tables[r], new[r].dlc,
                               funding_fee(position_of(r, position_maker), hours_to_charge),
                               new[r].complete_fee) ]
    /\ next_txid' = next_txid + 1
    /\ rollover_steps' = Append(rollover_steps,
                                rollover_step(IF from_params_taker = None
                                              THEN "rollover" ELSE "retry"))
    /\ UNCHANGED << position_maker, taker_saved >>
    /\ UNCHANGED notRolloverVars

\* A rollover of the contract, whatever its inputs.
rollover_any ==
    \E oracle_data \in OliviaData, from_params_taker \in FromParamsTaker :
        rollover(oracle_data, from_params_taker)

\* An open contract of either position, opened with the first oracle data.
InitRollover ==
    /\ InitEarlier
    /\ InitConnectionActor
    /\ \E maker_position \in Positions : prepare_rollover(maker_position, "example_0")
    /\ InitLifecycle
    /\ InitTakerCfd
    /\ InitTasks
    /\ InitMailbox
    /\ InitSendInterval
    /\ InitRolloverTaker

NextRollover ==
    \/ save_taker_latest
    \/ append_rollover_event
    \/ rollover_any

SpecRollover == InitRollover /\ [][NextRollover]_vars

(***************************************************************************)
(* The lifecycle of one contract on the maker's and the taker's side:      *)
(* daemon-tests/tests/main/order.rs, non_collaborative_settlement.rs and   *)
(* projection.rs.                                                          *)
(***************************************************************************)
\* The attestations the oracle can deliver: the one of the contract's own
\* settlement event and one of another event (dummy_wrong_attestation).
Attestations == { "own", "other" }

\* projection::Cfd: the state shown after the events, from the state before.
RECURSIVE projection_state(_, _, _)
projection_state(r, st, names) ==
    IF names = << >>
    THEN st
    ELSE projection_state(r, apply_state(r, Head(names)), Tail(names))

\* The state a side shows for the contract; Cfd::new shows PendingSetup.
lifecycle_state(r) == projection_state(r, "PendingSetup", feed[r])

\* The states a side has shown, one after each event.
phases_of(r) ==
    [ i \in 1..(Len(feed[r]) + 1) |->
        projection_state(r, "PendingSetup", SubSeq(feed[r], 1, i - 1)) ]

\* The event is among the events of the side.
has_event(r, name) == \E i \in 1..Len(feed[r]) : feed[r][i] = name

\* The aggregate takes an event once, and none in a terminal state.
takes_event(r, name) ==
    /\ lifecycle_state(r) \notin TerminalStates
    /\ ~has_event(r, name)

\* The event is stored and shown on the side, the rest stays.
emit(r, name) == feed' = [ feed EXCEPT ![r] = Append(@, name) ]

\* accept_order: the maker accepts, the taker learns of it; contract setup
\* starts on either side.
contract_setup_started(r) ==
    /\ feed[r] = << >>
    /\ (r = "Taker") => (feed["Maker"] # << >> /\ Head(feed["Maker"]) = "ContractSetupStarted")
    /\ emit(r, "ContractSetupStarted")
    /\ UNCHANGED << broadcast, delivered >>
    /\ UNCHANGED notLifecycleVars

\* reject_order: the maker rejects, the taker learns of it.
offer_rejected(r) ==
    /\ feed[r] = << >>
    /\ (r = "Taker") => (feed["Maker"] = << "OfferRejected" >>)
    /\ emit(r, "OfferRejected")
    /\ UNCHANGED << broadcast, delivered >>
    /\ UNCHANGED notLifecycleVars

\* The setup protocol, which both sides run, ends well on a side: the DLC is
\* stored and the process manager broadcasts the lock transaction and starts
\* the monitoring.
contract_setup_completed(r) ==
    /\ \A q \in Roles : has_event(q, "ContractSetupStarted")
    /\ feed[r] = << "ContractSetupStarted" >>
    /\ emit(r, "ContractSetupCompleted")
    /\ broadcast' = broadcast \cup { "lock" }
    /\ UNCHANGED delivered
    /\ UNCHANGED notLifecycleVars

\* The setup protocol fails on a side.
contract_setup_failed(r) ==
    /\ \A q \in Roles : has_event(q, "ContractSetupStarted")
    /\ feed[r] = << "ContractSetupStarted" >>
    /\ emit(r, "ContractSetupFailed")
    /\ UNCHANGED << broadcast, delivered >>
    /\ UNCHANGED notLifecycleVars

\* A monitor that reports the lock transaction to a side whether or not the
\* side has a DLC to monitor.
lock_confirmed_unmonitored(r) ==
    /\ "lock" \in broadcast
    /\ takes_event(r, "LockConfirmed")
    /\ emit(r, "LockConfirmed")
    /\ UNCHANGED << broadcast, delivered >>
    /\ UNCHANGED notLifecycleVars

\* confirm!(lock transaction): the monitor of a side, started when its setup
\* completed, sees the lock transaction confirmed.
lock_confirmed(r) ==
    /\ "lock" \in broadcast
    /\ has_event(r, "ContractSetupCompleted")
    /\ takes_event(r, "LockConfirmed")
    /\ emit(r, "LockConfirmed")
    /\ UNCHANGED << broadcast, delivered >>
    /\ UNCHANGED notLifecycleVars

\* system.commit: a side force-closes its open contract; the process manager
\* broadcasts the commit transaction.
manual_commit(r) ==
    /\ lifecycle_state(r) = "Open"
    /\ takes_event(r, "ManualCommit")
    /\ emit(r, "ManualCommit")
    /\ broadcast' = broadcast \cup { "commit" }
    /\ UNCHANGED delivered
    /\ UNCHANGED notLifecycleVars

\* confirm!(commit transaction): whoever published it.
commit_confirmed(r) ==
    /\ "commit" \in broadcast
    /\ has_event(r, "LockConfirmed")
    /\ takes_event(r, "CommitConfirmed")
    /\ emit(r, "CommitConfirmed")
    /\ UNCHANGED << broadcast, delivered >>
    /\ UNCHANGED notLifecycleVars

\* The side has applied the attestation of its settlement event.
is_attested_side(r) ==
    \/ has_event(r, "OracleAttestedPriorCetTimelock")
    \/ has_event(r, "OracleAttestedPostCetTimelock")

\* The CET timelock of the side has expired.
cet_timelock_has_expired(r) ==
    \/ has_event(r, "CetTimelockExpiredPriorOracleAttestation")
    \/ has_event(r, "CetTimelockExpiredPostOracleAttestation")

\* expire!(cet timelock): the timelock runs from the confirmation of the
\* commit transaction.  With the attestation applied the CET is at hand and
\* the process manager broadcasts it.
cet_timelock_expired(r) ==
    /\ has_event(r, "CommitConfirmed")
    /\ ~cet_timelock_has_expired(r)
    /\ lifecycle_state(r) \notin TerminalStates
    /\ IF is_attested_side(r)
       THEN /\ emit(r, "CetTimelockExpiredPostOracleAttestation")
            /\ broadcast' = broadcast \cup { "cet" }
       ELSE /\ emit(r, "CetTimelockExpiredPriorOracleAttestation")
            /\ UNCHANGED broadcast
    /\ UNCHANGED delivered
    /\ UNCHANGED notLifecycleVars

\* An oracle whose every attestation is taken for the one of the contract.
simulate_attestation_any_event(r, attestation) ==
    /\ delivered' = [ delivered EXCEPT ![r] = @ \cup { attestation } ]
    /\ IF /\ has_event(r, "LockConfirmed")
          /\ ~is_attested_side(r)
          /\ lifecycle_state(r) \notin TerminalStates
       THEN IF cet_timelock_has_expired(r)
            THEN /\ emit(r, "OracleAttestedPostCetTimelock")
                 /\ broadcast' = broadcast \cup { "cet" }
            ELSE /\ emit(r, "OracleAttestedPriorCetTimelock")
                 /\ broadcast' = broadcast \cup { "commit" }
       ELSE UNCHANGED << feed, broadcast >>
    /\ UNCHANGED notLifecycleVars

\* simulate_attestation!: an attestation is delivered to a side.  Only the
\* attestation of the contract's settlement event reaches the contract; after
\* the timelock it yields the CET, which the process manager broadcasts, before
\* it the commit transaction is broadcast if it was not.
simulate_attestation(r, attestation) ==
    /\ delivered' = [ delivered EXCEPT ![r] = @ \cup { attestation } ]
    /\ IF /\ attestation = "own"
          /\ has_event(r, "LockConfirmed")
          /\ ~is_attested_side(r)
          /\ lifecycle_state(r) \notin TerminalStates
       THEN IF cet_timelock_has_expired(r)
            THEN /\ emit(r, "OracleAttestedPostCetTimelock")
                 /\ broadcast' = broadcast \cup { "cet" }
            ELSE /\ emit(r, "OracleAttestedPriorCetTimelock")
                 /\ broadcast' = broadcast \cup { "commit" }
       ELSE UNCHANGED << feed, broadcast >>
    /\ UNCHANGED notLifecycleVars

\* confirm!(cet).
cet_confirmed(r) ==
    /\ "cet" \in broadcast
    /\ has_event(r, "CommitConfirmed")
    /\ takes_event(r, "CetConfirmed")
    /\ emit(r, "CetConfirmed")
    /\ UNCHANGED << broadcast, delivered >>
    /\ UNCHANGED notLifecycleVars

\* A contract for a placed order, whatever happens to it.
InitContract ==
    /\ InitEarlier
    /\ InitConnectionActor
    /\ prepare_rollover("Short", "example_0")
    /\ InitLifecycle
    /\ InitTakerCfd
    /\ InitTasks
    /\ InitMailbox
    /\ InitSendInterval
    /\ InitRolloverTaker

NextLifecycle ==
    \/ \E r \in Roles : contract_setup_started(r)
    \/ \E r \in Roles : offer_rejected(r)
    \/ \E r \in Roles : contract_setup_completed(r)
    \/ \E r \in Roles : contract_setup_failed(r)
    \/ \E r \in Roles : lock_confirmed(r)
    \/ \E r \in Roles : manual_commit(r)
    \/ \E r \in Roles : commit_confirmed(r)
    \/ \E r \in Roles : cet_timelock_expired(r)
    \/ \E r \in Roles, attestation \in Attestations : simulate_attestation(r, attestation)
    \/ \E r \in Roles : cet_confirmed(r)

SpecLifecycle == InitContract /\ [][NextLifecycle]_vars

(***************************************************************************)
(* Offers and orders: xtra-libp2p-offer/src/current/maker.rs,              *)
(* xtra-libp2p-offer/src/current/taker.rs and daemon/src/taker_cfd.rs.     *)
(***************************************************************************)

\* The clock stops at MaxUtc; an offer is safe to take for at most
\* MaxSafeFor ticks after the maker created it.
MaxUtc == 3
MaxSafeFor == 2

MaxInFlight == 1

Peers == { "taker" }

\* model::Offer, as far as an order depends on it.
Offer(id, key, safe_until) == [ id |-> id, key |-> key, safe_until |-> safe_until ]

is_safe_to_take_always(offer, at) == TRUE

\* model::Offer::is_safe_to_take: the time is before safe_until_timestamp.
is_safe_to_take(offer, at) == at < offer.safe_until

\* maker::Offers::update: the latest offer of each (symbol, position) replaces
\* the one before.
update(current, new_offers) ==
    [ k \in OfferKeys |->
        IF \E o \in new_offers : o.key = k
        THEN CHOOSE o \in new_offers : o.key = k
        ELSE current[k] ]

\* A to_vec that gives the offers of one position only.
to_vec_of_long(current) ==
    { current[k] : k \in { j \in OfferKeys : current[j] # None /\ j[2] = "Long" } }

\* maker::Offers::to_vec.
to_vec(current) == { current[k] : k \in { j \in OfferKeys : current[j] # None } }

\* maker::Actor::send_offers: the task opens a substream and sends the offers,
\* the taker's offer actor receives them and sends LatestOffers to taker_cfd;
\* a send that fails is logged and the offers are lost, and it fails when
\* MaxInFlight messages are on their way already.
send_offers(in_flight, new_offers, sent) ==
    IF sent /\ Cardinality(in_flight) < MaxInFlight
    THEN in_flight \cup { new_offers }
    ELSE in_flight

\* The maker creates an offer for the key: a fresh id, safe for safe_for
\* ticks from now.
new_offers_for(key, safe_for) == { Offer(next_offer_id, key, utc + safe_for) }

\* maker::Actor::handle(NewOffers), of one new offer.
handle_NewOffers(key, safe_for, sent) ==
    /\ next_offer_id <= MaxOfferId
    /\ LET msg == new_offers_for(key, safe_for)
       IN /\ current_offers' = update(current_offers, msg)
          /\ latest_offers' =
                 IF connected_peers # {}
                 THEN send_offers(latest_offers, msg, sent)
                 ELSE latest_offers
    /\ next_offer_id' = next_offer_id + 1
    /\ UNCHANGED << connected_peers, offers, utc, order_actor, place_orders,
                    place_order_ret >>
    /\ UNCHANGED notTakerCfdVars

\* maker::Actor::handle_connection_established.
handle_connection_established(peer, sent) ==
    /\ peer \notin connected_peers
    /\ connected_peers' = connected_peers \cup { peer }
    /\ latest_offers' = send_offers(latest_offers, to_vec(current_offers), sent)
    /\ UNCHANGED << current_offers, offers, utc, next_offer_id, order_actor,
                    place_orders, place_order_ret >>
    /\ UNCHANGED notTakerCfdVars

\* maker::Actor::handle_no_connection and remove_peer.
handle_no_connection(peer) ==
    /\ peer \in connected_peers
    /\ connected_peers' = connected_peers \ { peer }
    /\ UNCHANGED << current_offers, latest_offers, offers, utc, next_offer_id,
                    order_actor, place_orders, place_order_ret >>
    /\ UNCHANGED notTakerCfdVars

\* taker_cfd::Offers::insert.
insert(held, msg) ==
    [ id \in OfferIds |->
        IF \E o \in msg : o.id = id
        THEN CHOOSE o \in msg : o.id = id
        ELSE held[id] ]

\* taker_cfd::Offers::remove_old_offers.
remove_old_offers(held, at) ==
    [ id \in OfferIds |->
        IF held[id] # None /\ is_safe_to_take(held[id], at) THEN held[id] ELSE None ]

\* taker_cfd::Actor::handle_latest_offers.
handle_latest_offers(msg) ==
    /\ msg \in latest_offers
    /\ latest_offers' = latest_offers \ { msg }
    /\ offers' = insert(offers, msg)
    /\ UNCHANGED << current_offers, connected_peers, utc, next_offer_id,
                    order_actor, place_orders, place_order_ret >>
    /\ UNCHANGED notTakerCfdVars

PlaceOrderRet(offer_id, result) == [ offer_id |-> offer_id, result |-> result ]

\* taker_cfd::Actor::handle(PlaceOrder).  Offers::get reads the clock when it
\* removes the old offers, the handler reads it again for its own check:
\* `later` is the time that passed between the two readings.
handle_PlaceOrder(offer_id, later) ==
    /\ utc + later <= MaxUtc
    /\ LET held == remove_old_offers(offers, utc)
           at == utc + later
           offer == held[offer_id]
       IN /\ offers' = held
          /\ utc' = at
          /\ IF offer = None
             THEN /\ place_order_ret' = PlaceOrderRet(offer_id, "NotFound")
                  /\ UNCHANGED place_orders
             ELSE IF ~is_safe_to_take(offer, at)
             THEN /\ place_order_ret' = PlaceOrderRet(offer_id, "Outdated")
                  /\ UNCHANGED place_orders
             ELSE IF ~order_actor
             THEN /\ place_order_ret' = PlaceOrderRet(offer_id, "FailedToPlace")
                  /\ UNCHANGED place_orders
             ELSE /\ place_order_ret' = PlaceOrderRet(offer_id, "Ok")
                  /\ place_orders' = Append(place_orders,
                         [ order_id |-> Len(place_orders) + 1, offer_id |-> offer.id ])
    /\ UNCHANGED << current_offers, connected_peers, latest_offers, next_offer_id,
                    order_actor >>
    /\ UNCHANGED notTakerCfdVars

\* The order actor of the taker stops.
order_actor_stopped ==
    /\ order_actor
    /\ order_actor' = FALSE
    /\ UNCHANGED << current_offers, connected_peers, latest_offers, offers, utc,
                    next_offer_id, place_orders, place_order_ret >>
    /\ UNCHANGED notTakerCfdVars

\* Time passes.
tick_utc ==
    /\ utc < MaxUtc
    /\ utc' = utc + 1
    /\ UNCHANGED << current_offers, connected_peers, latest_offers, offers,
                    next_offer_id, order_actor, place_orders, place_order_ret >>
    /\ UNCHANGED notTakerCfdVars

MaxPlaceOrders == 1

NextTakerCfd ==
    \/ \E key \in OfferKeys, safe_for \in 1 .. MaxSafeFor, sent \in BOOLEAN :
           handle_NewOffers(key, safe_for, sent)
    \/ \E peer \in Peers, sent \in BOOLEAN : handle_connection_established(peer, sent)
    \/ \E peer \in Peers : handle_no_connection(peer)
    \/ \E msg \in latest_offers : handle_latest_offers(msg)
    \/ \E offer_id \in OfferIds, later \in 0 .. 1 :
           Len(place_orders) < MaxPlaceOrders /\ handle_PlaceOrder(offer_id, later)
    \/ order_actor_stopped
    \/ tick_utc

SpecTakerCfd == Init /\ [][NextTakerCfd]_vars

(***************************************************************************)
(* tokio-tasks/src/tasks.rs: Tasks, the handles of the tasks an owner has  *)
(* spawned.  A step of a task is one poll of its future by the runtime.    *)
(***************************************************************************)

\* The number of polls of one task that the model follows.
MaxPolls == 2

SpawnedTask(fallible, pc) == [ fallible |-> fallible, pc |-> pc ]

\* The future of the task has not come to its end and was not cancelled.
is_running(t) == task_state[t] # None /\ task_state[t].pc \in { "f", "err_handler" }

\* FutureExt::spawn_with_handle: the future is spawned on the runtime and the
\* RemoteHandle is returned; the id of the task is its place in the Vec.
spawn_with_handle(t, fallible) ==
    /\ ~tasks.dropped
    /\ t = Len(tasks.handles) + 1
    /\ t <= MaxTasks
    /\ task_state' = [ task_state EXCEPT ![t] = SpawnedTask(fallible, "f") ]
    /\ tasks' = [ tasks EXCEPT !.handles = Append(@, t) ]

\* Tasks::add.
add(t) ==
    /\ spawn_with_handle(t, FALSE)
    /\ UNCHANGED task_progress
    /\ UNCHANGED notTasksVars

\* Tasks::add_fallible.
add_fallible(t) ==
    /\ spawn_with_handle(t, TRUE)
    /\ UNCHANGED task_progress
    /\ UNCHANGED notTasksVars

\* What a poll of f comes to: f is pending, f returns (Ok for a fallible
\* task), f returns Err and the err_handler finishes in the same poll, or f
\* returns Err and the err_handler is pending.
PollOutcomes == { "Pending", "Ok", "ErrHandled", "ErrHandling" }

\* The runtime polls the future of the task: the plain future of add, or the
\* `match f.await { Ok(()) => {}, Err(err) => err_handler(err).await }` of
\* add_fallible.
poll(t, outcome) ==
    /\ is_running(t)
    /\ task_progress[t] < MaxPolls
    /\ outcome \in { "ErrHandled", "ErrHandling" } =>
           task_state[t].fallible /\ task_state[t].pc = "f"
    /\ task_progress' = [ task_progress EXCEPT ![t] = @ + 1 ]
    /\ task_state' = [ task_state EXCEPT ![t].pc =
           CASE outcome = "Pending" -> @
             [] outcome = "Ok" -> "finished"
             [] outcome = "ErrHandled" -> "finished"
             [] outcome = "ErrHandling" -> "err_handler" ]
    /\ UNCHANGED tasks
    /\ UNCHANGED notTasksVars

\* The handles are forgotten instead of dropped: the tasks keep running.
drop_tasks_forgetting ==
    /\ ~tasks.dropped
    /\ tasks' = [ dropped |-> TRUE, handles |-> << >> ]
    /\ UNCHANGED << task_state, task_progress >>
    /\ UNCHANGED notTasksVars

\* The owner drops its Tasks: the Vec and every RemoteHandle in it are
\* dropped, and a future whose RemoteHandle is dropped is not polled again.
drop_tasks ==
    /\ ~tasks.dropped
    /\ tasks' = [ dropped |-> TRUE, handles |-> << >> ]
    /\ task_state' =
           [ t \in TaskIds |->
               IF (\E i \in 1 .. Len(tasks.handles) : tasks.handles[i] = t) /\ is_running(t)
               THEN SpawnedTask(task_state[t].fallible, "cancelled")
               ELSE task_state[t] ]
    /\ UNCHANGED task_progress
    /\ UNCHANGED notTasksVars

NextTasks ==
    \/ \E t \in TaskIds : add(t)
    \/ \E t \in TaskIds : add_fallible(t)
    \/ \E t \in TaskIds, outcome \in PollOutcomes : poll(t, outcome)
    \/ drop_tasks

SpecTasks == Init /\ [][NextTasks]_vars

(***************************************************************************)
(* xtras/src/send_interval.rs: the loop that sends an actor a message      *)
(* every interval.                                                         *)
(***************************************************************************)

\* A loop that does not wait for the handler (do_send, as
\* xtra::Context::notify_interval): it sleeps as soon as the message is queued.
interval_do_send(l) ==
    /\ interval_loop[l].pc = "send"
    /\ interval_loop[l].sent < MaxSent
    /\ IF receiver.alive
       THEN /\ receiver' = [ receiver EXCEPT !.mailbox = Append(@, l) ]
            /\ interval_loop' = [ interval_loop EXCEPT
                   ![l] = [ pc |-> "sleep", slept |-> 0, sent |-> @.sent + 1 ] ]
       ELSE /\ interval_loop' = [ interval_loop EXCEPT ![l].pc = "stopped" ]
            /\ UNCHANGED receiver
    /\ UNCHANGED notSendIntervalVars

\* self.send(constructor()): the message is queued and the loop awaits the
\* return of its handler; the send to an actor that shut down is an error and
\* ends the loop.
interval_send(l) ==
    /\ interval_loop[l].pc = "send"
    /\ interval_loop[l].sent < MaxSent
    /\ IF receiver.alive
       THEN /\ receiver' = [ receiver EXCEPT !.mailbox = Append(@, l) ]
            /\ interval_loop' = [ interval_loop EXCEPT
                   ![l] = [ pc |-> "await", slept |-> 0, sent |-> @.sent + 1 ] ]
       ELSE /\ interval_loop' = [ interval_loop EXCEPT ![l].pc = "stopped" ]
            /\ UNCHANGED receiver
    /\ UNCHANGED notSendIntervalVars

\* The actor takes the next message of its mailbox into its handler.
receiver_takes ==
    /\ receiver.alive
    /\ receiver.handling = 0
    /\ receiver.mailbox # << >>
    /\ receiver' = [ receiver EXCEPT !.handling = Head(receiver.mailbox),
                                     !.mailbox = Tail(@) ]
    /\ UNCHANGED interval_loop
    /\ UNCHANGED notSendIntervalVars

\* The handler returns: send(..).await is Ok and the loop that awaits it goes
\* to sleep.
receiver_returns ==
    /\ receiver.handling # 0
    /\ receiver' = [ receiver EXCEPT !.handling = 0 ]
    /\ interval_loop' =
           [ l \in Intervals |->
               IF l = receiver.handling /\ interval_loop[l].pc = "await"
               THEN [ interval_loop[l] EXCEPT !.pc = "sleep", !.slept = 0 ]
               ELSE interval_loop[l] ]
    /\ UNCHANGED notSendIntervalVars

\* The actor shuts down: the messages in its mailbox are dropped, and the
\* sends that await them return an error, which ends their loops.
receiver_stops ==
    /\ receiver.alive
    /\ receiver.handling = 0
    /\ receiver' = [ alive |-> FALSE, mailbox |-> << >>, handling |-> 0 ]
    /\ interval_loop' =
           [ l \in Intervals |->
               IF interval_loop[l].pc = "await"
               THEN [ interval_loop[l] EXCEPT !.pc = "stopped" ]
               ELSE interval_loop[l] ]
    /\ UNCHANGED notSendIntervalVars

\* Time passes for the loops that sleep.
interval_tick ==
    /\ \E l \in Intervals :
           interval_loop[l].pc = "sleep" /\ interval_loop[l].slept < IntervalTicks
    /\ interval_loop' =
           [ l \in Intervals |->
               IF interval_loop[l].pc = "sleep" /\ interval_loop[l].slept < IntervalTicks
               THEN [ interval_loop[l] EXCEPT !.slept = @ + 1 ]
               ELSE interval_loop[l] ]
    /\ UNCHANGED receiver
    /\ UNCHANGED notSendIntervalVars

\* sleep_silent(duration) returns once the interval has elapsed.
interval_wakes(l) ==
    /\ interval_loop[l].pc = "sleep"
    /\ interval_loop[l].slept >= IntervalTicks
    /\ interval_loop' = [ interval_loop EXCEPT ![l].pc = "send" ]
    /\ UNCHANGED receiver
    /\ UNCHANGED notSendIntervalVars

NextSendInterval ==
    \/ \E l \in Intervals : interval_send(l)
    \/ receiver_takes
    \/ receiver_returns
    \/ receiver_stops
    \/ interval_tick
    \/ \E l \in Intervals : interval_wakes(l)

SpecSendInterval == Init /\ [][NextSendInterval]_vars

(***************************************************************************)
(* daemon/src/rollover_taker.rs: the actor the taker spawns to roll one     *)
(* contract over.  self.maker is the connection actor that forwards to the *)
(* maker.                                                                  *)
(***************************************************************************)
\* The states the contract can be in when the actor is spawned for it.
RolloverCfdStates == { "PendingOpen", "Open", "OpenCommitted", "Closed" }

\* Cfd::can_roll_over: a rollover is allowed from Open only.
can_roll_over(state) == state = "Open"

\* Actor::complete: the owner is given the message (a failure of that send is
\* ignored) and ctx.stop() asks the actor to stop once the handler is over.
complete(completed, given) == Append(given, completed)

\* xtra::Actor::started.  A contract that cannot be rolled over completes
\* with CannotRollover; there is no return after it, so the proposal follows
\* in either case: ProposeRollOver to self.maker, then the proposal to the
\* projection, and Completed::Failed when one of the two sends fails.  The
\* actor stops after the handler when complete was called.
rollover_taker_started(o, state, maker_ok, projection_ok) ==
    /\ rollover_actor[o].pc = "unspawned"
    /\ LET cannot == ~ can_roll_over(state)
           first == IF cannot
                    THEN complete("CannotRollover", on_completed[o])
                    ELSE on_completed[o]
           propose_ok == maker_ok /\ projection_ok
           second == IF propose_ok THEN first ELSE complete("Failed", first)
       IN  /\ proposals_sent' =
                  [ proposals_sent EXCEPT ![o] = IF maker_ok THEN @ + 1 ELSE @ ]
           /\ rollover_proposal' =
                  [ rollover_proposal EXCEPT ![o] = IF propose_ok THEN "Outgoing" ELSE @ ]
           /\ on_completed' = [ on_completed EXCEPT ![o] = second ]
           /\ rollover_actor' =
                  [ rollover_actor EXCEPT
                      ![o] = [ pc |-> IF cannot \/ ~ propose_ok
                                      THEN "stopped" ELSE "proposed",
                               cfd |-> state ] ]
    /\ UNCHANGED notRolloverTakerVars

\* handle_confirm_rollover: the announcement is fetched, the proposal is taken
\* from the projection and the rollover task is spawned; a failure completes
\* with Failed.
handle_confirm_rollover(o, ok) ==
    /\ rollover_actor[o].pc = "proposed"
    /\ IF ok
       THEN /\ rollover_proposal' = [ rollover_proposal EXCEPT ![o] = None ]
            /\ rollover_actor' = [ rollover_actor EXCEPT ![o].pc = "rolling_over" ]
            /\ UNCHANGED on_completed
       ELSE /\ on_completed' =
                   [ on_completed EXCEPT ![o] = complete("Failed", @) ]
            /\ rollover_actor' = [ rollover_actor EXCEPT ![o].pc = "stopped" ]
            /\ UNCHANGED rollover_proposal
    /\ UNCHANGED proposals_sent
    /\ UNCHANGED notRolloverTakerVars

\* reject_rollover: the proposal is taken from the projection and the actor
\* completes with Rejected, or with Failed when the projection is gone.
reject_rollover(o, ok) ==
    /\ rollover_actor[o].pc = "proposed"
    /\ rollover_proposal' = [ rollover_proposal EXCEPT ![o] = IF ok THEN None ELSE @ ]
    /\ on_completed' =
           [ on_completed EXCEPT
               ![o] = complete(IF ok THEN "Rejected" ELSE "Failed", @) ]
    /\ rollover_actor' = [ rollover_actor EXCEPT ![o].pc = "stopped" ]
    /\ UNCHANGED proposals_sent
    /\ UNCHANGED notRolloverTakerVars

\* handle_rollover_succeeded.
handle_rollover_succeeded(o) ==
    /\ rollover_actor[o].pc = "rolling_over"
    /\ on_completed' = [ on_completed EXCEPT ![o] = complete("UpdatedContract", @) ]
    /\ rollover_actor' = [ rollover_actor EXCEPT ![o].pc = "stopped" ]
    /\ UNCHANGED << proposals_sent, rollover_proposal >>
    /\ UNCHANGED notRolloverTakerVars

\* handle_rollover_failed.
handle_rollover_failed(o) ==
    /\ rollover_actor[o].pc = "rolling_over"
    /\ on_completed' = [ on_completed EXCEPT ![o] = complete("Failed", @) ]
    /\ rollover_actor' = [ rollover_actor EXCEPT ![o].pc = "stopped" ]
    /\ UNCHANGED << proposals_sent, rollover_proposal >>
    /\ UNCHANGED notRolloverTakerVars

NextRolloverTaker ==
    \/ \E o \in OrderIds, state \in RolloverCfdStates,
          maker_ok \in BOOLEAN, projection_ok \in BOOLEAN :
           rollover_taker_started(o, state, maker_ok, projection_ok)
    \/ \E o \in OrderIds, ok \in BOOLEAN : handle_confirm_rollover(o, ok)
    \/ \E o \in OrderIds, ok \in BOOLEAN : reject_rollover(o, ok)
    \/ \E o \in OrderIds : handle_rollover_succeeded(o)
    \/ \E o \in OrderIds : handle_rollover_failed(o)

SpecRolloverTaker == Init /\ [][NextRolloverTaker]_vars

(***************************************************************************)
(* Properties of the live tables.                                          *)
(***************************************************************************)
\* The created_at stamps of a sequence of event rows.
stamps(rows) == [ i \in 1..Len(rows) |-> rows[i].created_at ]

\* C1: after any sequence of insert_cfd, append_event and load_open_cfd calls,
\* the aggregate load_open_cfd returns has a version equal to the number of
\* events persisted for the contract, and the copy left in the cache is that
\* aggregate.
C1_VersionIsNumberOfEvents ==
    (ret.op = "load_open_cfd" /\ ret.result = "Ok") =>
        /\ ret.cfd.version = Len(events_of(ret.id))
        /\ aggregate_cache[ret.id] = ret.cfd

\* A load that returned an aggregate with two events folded in, of a contract
\* that is not the only one with events.
C1_Witness ==
    /\ ret.op = "load_open_cfd" /\ ret.result = "Ok"
    /\ ret.cfd.version = 2
    /\ Len(events) = 3

\* C2: under every interleaving of append_event and load_open_cfd calls, the
\* aggregate a load folds, from a cached aggregate or from none, is the
\* aggregate obtained by folding, from the freshly loaded row, all events of
\* the contract that were persisted when the load read them: every event
\* beyond the cached version is applied exactly once, in append order.
C2_CachedLoadIsFullFold ==
    \A l \in Loaders :
        loaders[l].pc = "folded" =>
            LET id == loaders[l].id
                rows == SelectSeq(events_of(id),
                                  LAMBDA e : e.created_at <= loaders[l].at)
            IN  /\ loaders[l].cfd = fold(CfdAggregate_new(id, load_cfd_row(id)), rows)
                /\ loaders[l].cfd.applied = stamps(rows)

\* A load that started from a cached aggregate behind the log and folded in
\* the events the cache did not have, while an event was appended after its read.
C2_Witness ==
    \E l \in Loaders :
        /\ loaders[l].pc = "folded"
        /\ loaders[l].cfd.version = 2
        /\ Len(events_of(loaders[l].id)) = 3
        /\ \E k \in Loaders :
              /\ loaders[k].pc = "removed"
              /\ loaders[k].id = loaders[l].id
              /\ loaders[k].cfd # None
              /\ loaders[k].cfd.version = 1

\* C7: events are read back in the order they were appended: in every load of
\* a contract's events, and in every aggregate folded from them, an event
\* appended later comes later.
C7_ReadBackInAppendOrder ==
    /\ \A o \in OrderIds :
          LET rows == load_cfd_events(o, 0)
          IN  \A i, j \in 1..Len(rows) :
                  i < j => rows[i].created_at < rows[j].created_at
    /\ (ret.op = "load_open_cfd" /\ ret.result = "Ok") =>
           \A i, j \in 1..Len(ret.cfd.applied) :
               i < j => ret.cfd.applied[i] < ret.cfd.applied[j]

\* A load that returned three events of one contract.
C7_Witness ==
    /\ ret.op = "load_open_cfd" /\ ret.result = "Ok"
    /\ Len(ret.cfd.applied) = 3
    /\ Len(load_cfd_events(ret.id, 1)) = 2

\* C9: an insert_cfd for an order id that already has a contract fails, and
\* leaves the contract and the events stored for it as they were.
C9_SecondInsertFails ==
    [][ (ret'.op = "insert_cfd" /\ cfds[ret'.id] # None) =>
            /\ ret'.result = "Err"
            /\ cfds' = cfds
            /\ events' = events ]_vars

\* A refused insert for a contract that has events.
C9_Witness ==
    /\ ret.op = "insert_cfd" /\ ret.result = "Err"
    /\ cfds[ret.id] # None
    /\ Len(events_of(ret.id)) >= 1

\* C3: once a contract has reached a terminal state, applying further events
\* leaves its state unchanged: the aggregate load_open_cfd returns is in the
\* terminal state the contract reached first.
C3_TerminalStateIsFinal ==
    (ret.op = "load_open_cfd" /\ ret.result = "Ok") =>
        LET rows == events_of(ret.id)
            new == CfdAggregate_new(ret.id, load_cfd_row(ret.id))
        IN  \A k \in 0..Len(rows) :
                LET before == fold(new, SubSeq(rows, 1, k)).state
                IN  before \in TerminalStates => ret.cfd.state = before

\* C8: a chain event the monitor delivers more than once for a contract is
\* stored at most once: a repeated delivery is refused and appends nothing,
\* so no chain event is twice in a contract's log.
C8_ChainEventStoredOnce ==
    \A o \in OrderIds :
        LET rows == events_of(o)
        IN  \A i, j \in 1..Len(rows) :
                (i < j /\ rows[i].name \in MonitorKinds) => rows[i].name # rows[j].name

\* A delivery that was refused although the contract is not in a terminal
\* state: a repeat of an event in its log.
C8_Witness ==
    /\ ret.op = "handle_monitoring_event"
    /\ ret.result = "NoStateChange"
    /\ load_cfd_by_order_id(ret.id).state \notin TerminalStates
    /\ Len(events_of(ret.id)) = 2

(***************************************************************************)
(* Properties of the archival.                                             *)
(***************************************************************************)
\* C10: move_to_closed_cfds moves a contract exactly if its log holds
\* CollaborativeSettlementConfirmed, CetConfirmed or RefundConfirmed.  A
\* contract it moves loads through load_closed_cfd afterwards, no longer
\* through load_open_cfd, and has no events left in the live log; a contract
\* without such an event stays in the live tables with all its events and
\* does not load as closed.  (Contracts whose archival fails are left aside.)
C10_MoveIffConfirmed ==
    [][ ret'.op = "move_to_closed_cfds" =>
          \A o \in OrderIds :
              cfds[o] # None =>
                  IF o \in closed_cfd_ids_according_to_the_blockchain
                  THEN closed_cfd_of(o) # None =>
                          /\ load_closed_cfd_ok(o)'
                          /\ load_open_cfd_fold(o, aggregate_cache[o])' = None
                          /\ \A i \in 1..Len(events') : events'[i].cfd_id # o
                  ELSE /\ cfds'[o] = cfds[o]
                       /\ events_of(o)' = events_of(o)
                       /\ ~ load_closed_cfd_ok(o)' ]_vars

\* C11: when a step of moving one contract fails, the contract's rows in cfds
\* and events stay as they were and nothing of it is in the closed tables, the
\* other contracts due for archival are moved all the same, and the contract
\* is due again at the next call.
C11_FailedMoveLeavesLiveRows ==
    [][ ret'.op = "move_to_closed_cfds" =>
          \A o \in closed_cfd_ids_according_to_the_blockchain :
              IF closed_cfd_of(o) = None
              THEN /\ cfds'[o] = cfds[o]
                   /\ events_of(o)' = events_of(o)
                   /\ closed_cfds'[o] = None
                   /\ o \in closed_cfd_ids_according_to_the_blockchain'
              ELSE /\ closed_cfds'[o] # None
                   /\ cfds'[o] = None ]_vars

\* A move has archived one contract and left another one, whose move failed,
\* in the live tables, still due.
C11_Witness ==
    /\ ret.op = "move_to_closed_cfds"
    /\ \E o \in OrderIds : closed_cfds[o] # None
    /\ \E o \in closed_cfd_ids_according_to_the_blockchain :
          closed_cfds[o] = None /\ Len(events_of(o)) >= 2

\* C12: once a contract has been moved to the closed tables, every
\* load_open_cfd for it fails with OpenCfdNotFound, also for a reader whose
\* aggregate of the contract was cached before the move.
C12_LoadOpenAfterMoveFails ==
    (ret.op = "load_open_cfd" /\ closed_cfds[ret.id] # None) =>
        ret.result = "OpenCfdNotFound"

\* The contract has its row in the live tables.
in_live_tables(o) == cfds[o] # None

\* The contract has its row in the closed tables.
in_closed_tables(o) == closed_cfds[o] # None

attempted_msgs == { attempted[i].msg : i \in 1..Len(attempted) }

\* Those of them that are side-effects, not projection updates.
attempted_side_effects ==
    { m \in attempted_msgs : m.channel \notin {"cfds_changed", "cfd_changed_metrics"} }

\* The messages the last handle call delivered.
sent_msgs == { attempted[i].msg : i \in { j \in 1..Len(attempted) : attempted[j].ok } }

\* The last handle call stored its event, which is of the given kind.
Handled(name) ==
    /\ handled # None
    /\ handled.persisted
    /\ handled.event.name = name

\* C13: every side-effect of an event that induces several is attempted at
\* least once; a failed dispatch of one does not keep the remaining ones of the
\* same event from being attempted.
C13_EverySideEffectAttempted ==
    (handled # None /\ handled.persisted) =>
        LET induced == post_process(pm_role, handled.event)
        IN  \A i \in 1..Len(induced) : induced[i] \in attempted_msgs

\* C14: for every event handled and stored, a change notification for its
\* contract is sent to the UI projection and to the metrics projection,
\* whatever the kind of the event and whatever became of its side-effect
\* dispatches.  (A notification whose own send fails is not held against it.)
C14_ProjectionsNotified ==
    ( /\ handled # None
      /\ handled.persisted
      /\ \A i \in 1..Len(attempted) :
            attempted[i].msg.channel \in {"cfds_changed", "cfd_changed_metrics"}
                => attempted[i].ok ) =>
        /\ CfdChanged("cfds_changed", handled.event.id) \in sent_msgs
        /\ CfdChanged("cfd_changed_metrics", handled.event.id) \in sent_msgs

\* C15: on ContractSetupCompleted with a DLC the side-effects requested are
\* exactly the broadcast of the lock transaction, the start of monitoring of
\* the contract with the DLC, and attestation monitoring for the DLC's
\* settlement_event_id.
C15_SetupCompletedSideEffects ==
    (Handled("ContractSetupCompleted") /\ handled.event.dlc # None) =>
        attempted_side_effects =
            { TryBroadcastTransaction(handled.event.id, "Lock"),
              StartMonitoring(handled.event.id, handled.event.dlc),
              MonitorAttestation(handled.event.id,
                                 handled.event.dlc.settlement_event_id) }

\* C16: on RolloverCompleted with a DLC monitoring is started with the new DLC
\* and attestation interest is registered for its settlement_event_id, and the
\* lock transaction is not broadcast.
C16_RolloverCompletedSideEffects ==
    (Handled("RolloverCompleted") /\ handled.event.dlc # None) =>
        /\ StartMonitoring(handled.event.id, handled.event.dlc) \in attempted_msgs
        /\ MonitorAttestation(handled.event.id,
                              handled.event.dlc.settlement_event_id) \in attempted_msgs
        /\ \A m \in attempted_msgs : m.channel # "try_broadcast_transaction"

\* C17: on CollaborativeSettlementCompleted the spend transaction is broadcast
\* exactly if the role is maker, and monitoring of the spend transaction is
\* requested in both roles.
C17_SettlementCompletedSideEffects ==
    Handled("CollaborativeSettlementCompleted") =>
        /\ TryBroadcastTransaction(handled.event.id, "CollaborativeClose") \in attempted_msgs
              <=> pm_role = "Maker"
        /\ MonitorCollaborativeSettlement(handled.event.id) \in attempted_msgs

\* C31: the process manager appends an event to the event store before it
\* dispatches anything for it: whenever a side-effect or a notification was
\* attempted for the event last handled, that event is stored, as the latest
\* event of the store; and when the append failed, nothing is attempted (no
\* side-effect, no notification), the store is left as it was and the handler
\* returns the error.
C31_AppendBeforeDispatch ==
    /\ [](handled # None =>
            /\ attempted # << >> =>
                   /\ handled.persisted
                   /\ events # << >>
                   /\ events[Len(events)].cfd_id = handled.event.id
                   /\ events[Len(events)].name = handled.event.name
            /\ ~handled.persisted => attempted = << >> /\ handled.result = "Err")
    /\ [][(handled' # handled /\ ~handled'.persisted) => events' = events]_vars

\* An event was stored and dispatched, and the append of the event handled
\* after it has failed: nothing was attempted for it.
C31_Witness ==
    /\ handled # None
    /\ ~handled.persisted
    /\ attempted = << >>
    /\ events # << >>
    /\ post_process(pm_role, handled.event) # << >>

C19_PendingUntilFetched ==
    [][ \A e \in pending_attestations :
          /\ e \notin pending_attestations' =>
                (new_attestations[e] > 0 /\ new_attestations'[e] = new_attestations[e] - 1)
          /\ (attestation_fetches'[e] < attestation_fetches[e] /\ last_fetch'.outcome # "Ok")
                => (e \in pending_attestations' /\ new_attestations'[e] = new_attestations[e])
          /\ (handle_sync /\ e \in likely_occured)
                => attestation_fetches'[e] = attestation_fetches[e] + 1 ]_vars

\* A fetch for a pending event id has failed, the id is still pending, and the
\* next Sync has started another fetch for it.
C19_Witness ==
    /\ last_fetch # None
    /\ last_fetch.outcome # "Ok"
    /\ last_fetch.id \in pending_attestations
    /\ attestation_fetches[last_fetch.id] > 0

\* The contract waits for the attestation of the event id: the event is the
\* settlement event of its DLC and no attestation has been applied to it.
waits_for(o, id) == cfds[o] # None /\ settlement_event_id[o] = id /\ ~is_attested(o)

C20_RestartIffPolicy ==
    [][ (notification # None /\ notification' = None) =>
          /\ notification.message = "Stopped" =>
                (metrics'.num_spawns = metrics.num_spawns + 1
                    <=> notification.reason \in restart_policy)
          /\ restart_policy = {} => metrics'.num_spawns = metrics.num_spawns ]_vars

\* The message waits in the mailbox of the address handed out.
queued(m) == \E i \in 1 .. Len(mailbox) : mailbox[i] = m

\* The supervisor will spawn a new instance for the notification it holds.
restart_due ==
    /\ notification # None
    /\ notification.message = "Stopped" => notification.reason \in restart_policy
    /\ metrics.num_spawns < MaxSpawns

\* C34: after the supervised actor has stopped and been restarted, a message
\* sent to the address handed out when the supervisor was made is handled by
\* the new instance: a message that waits while a restarted instance runs is
\* handled by that instance, and a message that waits while the stopped actor
\* is about to be restarted is handled by a later instance -- unless the
\* instance stops before it comes to the message.  A message is handled by an
\* instance the supervisor has spawned, and not while it waits.
C34_RestartedActorIsUsable ==
    /\ \A m \in MsgIds, n \in 2 .. MaxSpawns :
           (queued(m) /\ supervised /\ metrics.num_spawns = n)
               ~> (handled_by[m] = n \/ ~supervised)
    /\ \A m \in MsgIds, n \in 1 .. MaxSpawns - 1 :
           (queued(m) /\ ~supervised /\ restart_due /\ metrics.num_spawns = n)
               ~> (handled_by[m] > n \/ (~supervised /\ metrics.num_spawns > n))
    /\ [](\A m \in MsgIds :
            /\ handled_by[m] <= metrics.num_spawns
            /\ queued(m) => handled_by[m] = 0)

\* A message sent to the address was handled by an instance spawned in a
\* restart, while another message waits for it.
C34_Witness ==
    /\ \E m \in MsgIds : handled_by[m] >= 2
    /\ supervised
    /\ mailbox # << >>

(***************************************************************************)
(* Properties of the connection actor and the reconnect loop.              *)
(***************************************************************************)
\* The age of the last heartbeat at the present time.
heartbeat_age == clock - conn_state.last_heartbeat

\* C21, as stated: while connected, a pulse measurement that finds no
\* heartbeat for two heartbeat intervals makes the state Disconnected and
\* publishes Offline.
C21_MissedHeartbeatsDisconnect ==
    [][ (handle_measure_pulse /\ heartbeat_age >= heartbeat_timeout) =>
          (conn_state' = Disconnected /\ status' = Offline("None")) ]_vars

\* C21, amended: such a pulse measurement disconnects and publishes Offline
\* exactly when it comes less than one heartbeat interval after the previous
\* measurement; a measurement that fell behind leaves state and status as they
\* are.  The actor never disconnects while the last heartbeat is younger than
\* two intervals.
C21_MissedHeartbeatsDisconnectUnlessBehind ==
    [][ /\ (handle_measure_pulse /\ heartbeat_age >= heartbeat_timeout) =>
              IF clock - conn_state.last_pulse < maker_heartbeat_interval
              THEN conn_state' = Disconnected /\ status' = Offline("None")
              ELSE conn_state'.connected /\ status' = status
        /\ (conn_state.connected /\ ~conn_state'.connected) =>
              (heartbeat_age >= heartbeat_timeout /\ status' = Offline("None")) ]_vars

\* The link has been declared dead: after having been connected, the actor is
\* disconnected, Offline is published and the reconnect loop has yet to see it.
C21_Witness ==
    /\ ~conn_state.connected
    /\ status = Offline("None")
    /\ reconnect.pc = "changed"
    /\ changed
    /\ clock >= heartbeat_timeout

\* C22: when the maker's Hello carries another version than the one proposed,
\* the attempt fails: the actor stays disconnected, Online is not published,
\* and Offline with reason VersionNegotiationFailed is.
C22_VersionMismatchFails ==
    [][ \A actual_version \in Versions \ {proposed_version} :
          reconnect_connect("Hello", actual_version) =>
              /\ conn_state' = conn_state
              /\ ~conn_state'.connected
              /\ status' = Offline("VersionNegotiationFailed")
              /\ reconnect'.pc # "changed" ]_vars

\* An attempt has failed on the version: disconnected, Offline with the reason
\* published, the loop on its way to the next attempt.
C22_Witness ==
    /\ ~conn_state.connected
    /\ status = Offline("VersionNegotiationFailed")
    /\ reconnect.pc \in {"connect", "retry"}

\* C23: while the status is Offline the reconnect loop goes on attempting to
\* connect until an attempt succeeds, sleeping between 5 and 60 seconds after
\* each round of failed attempts; it makes no attempt while the status is
\* Online.
C23_ReconnectWhileOffline ==
    /\ [][ (\E outcome \in ConnectOutcomes, actual_version \in Versions :
              reconnect_connect(outcome, actual_version))
           => ~status.online ]_vars
    /\ [](reconnect.pc = "sleep" =>
              (reconnect.seconds >= 5 /\ reconnect.seconds <= MAX_RECONNECT_INTERVAL_SECONDS))
    /\ (~status.online) ~> (status.online \/ reconnect.pc = "connect")

\* A round of attempts has failed, the loop has slept and is attempting again,
\* the status still Offline.
C23_Witness ==
    /\ ~status.online
    /\ reconnect.pc = "connect"
    /\ reconnect.seconds >= 5

(***************************************************************************)
(* Properties of the rollover.                                             *)
(***************************************************************************)
\* The rollover row of a side holds the side's latest DLC and nothing else.
single_active_dlc(r) ==
    /\ Cardinality(rollover_tables[r].rollover_completed_event_data) = 1
    /\ \A row \in rollover_tables[r].rollover_completed_event_data :
          /\ row.commit_tx = rollover_cfd[r].dlc.commit_txid
          /\ row.settlement_event_id = rollover_cfd[r].dlc.settlement_event_id
          /\ row.revocation_secret = rollover_cfd[r].dlc.revocation

\* The counterparty's revocation secret of the commit transaction is among the
\* revoked commits of the side's latest DLC and in its table.
revocation_recorded_in(cfd, tables, r, txid) ==
    /\ \E q \in cfd[r].dlc.revoked_commit :
          /\ q.txid = txid
          /\ q.revocation_sk_theirs = << counterparty(r), txid >>
    /\ \E q \in tables[r].revoked_commit_transactions :
          /\ q.txid = txid
          /\ q.revocation_sk_theirs = << counterparty(r), txid >>

revocation_recorded(r, txid) ==
    revocation_recorded_in(rollover_cfd, rollover_tables, r, txid)

\* The same of the state a step leads to.
revocation_recorded_after(r, txid) ==
    revocation_recorded_in(rollover_cfd', rollover_tables', r, txid)

successive_rollovers(n) ==
    /\ Len(rollover_steps) >= n
    /\ \A i \in 1..n : rollover_steps[i].kind = "rollover"

\* The fees of both sides with one more full term charged.
one_more_term(fees) ==
    [ r \in Roles |->
        fees[r] + funding_fee(position_of(r, position_maker), FullTermHours) ]

\* C25: from an open contract with zero accumulated fees, after n successive
\* successful rollovers (n = 1, 2) the accumulated fees of the maker and of
\* the taker are the fees for 24 * n rollover hours.
C25_FeesAfterSuccessiveRollovers ==
    \A n \in 1..2 :
        (Len(rollover_steps) = n /\ successive_rollovers(n)) =>
            accumulated_fees
                = complete_fee_for_rollover_hours(position_maker, FullTermHours * n)

\* Two rollovers done with the maker long: the maker has been charged 48 hours,
\* the taker has received them.
C25_Witness ==
    /\ Len(rollover_steps) = 2
    /\ successive_rollovers(2)
    /\ position_maker = "Long"
    /\ accumulated_fees["Maker"] = 2 * FullTermHours * FundingFeePerHour
    /\ accumulated_fees["Taker"] = 0 - (2 * FullTermHours * FundingFeePerHour)

\* C26: a rollover retried from the DLC the test kept leaves both sides with
\* the fees they had after the rollover that first started from that DLC (48
\* hours when it was kept after one rollover, 24 hours when it was kept after
\* contract setup), and a rollover from the latest DLC that follows the retry
\* adds one more term of 24 hours.
C26_RetryChargesOnce ==
    \A i \in 1..Len(rollover_steps) :
        rollover_steps[i].kind = "retry" =>
            /\ rollover_steps[i].fees = rollover_steps[taker_saved.at + 1].fees
            /\ successive_rollovers(taker_saved.at) =>
                  rollover_steps[i].fees
                      = complete_fee_for_rollover_hours(
                            position_maker, FullTermHours * (taker_saved.at + 1))
            /\ ( /\ i < Len(rollover_steps)
                 /\ rollover_steps[i + 1].kind = "rollover" ) =>
                  rollover_steps[i + 1].fees = one_more_term(rollover_steps[i].fees)

\* The taker fell behind after two rollovers, the second was retried from the
\* DLC of the first and another rollover followed: 72 hours charged.
C26_Witness ==
    /\ taker_saved # None
    /\ taker_saved.at = 1
    /\ Len(rollover_steps) = 5
    /\ rollover_steps[2].kind = "rollover"
    /\ rollover_steps[3].kind = "append"
    /\ rollover_steps[4].kind = "retry"
    /\ rollover_steps[5].kind = "rollover"
    /\ accumulated_fees
           = complete_fee_for_rollover_hours(position_maker, 3 * FullTermHours)

\* The funding fee stored with the most recent RolloverCompleted data of a
\* side: that of one full term, or none for the data append_rollover_event
\* stores on the taker's side.
latest_funding_fee(r) ==
    IF r = "Taker" /\ rollover_steps[Len(rollover_steps)].kind = "append"
    THEN 0
    ELSE funding_fee(position_of(r, position_maker), hours_to_charge)

\* C38: storing the data of a RolloverCompleted event replaces what was stored
\* for the previous rollover: after any number of rollovers each side keeps
\* exactly one rollover record, with the revoked commits and the open CETs of
\* its latest DLC only, and loading returns the DLC, the funding fee and the
\* complete fee of the most recent rollover.
C38_OverwriteKeepsLastRollover ==
    Len(rollover_steps) >= 1 =>
        \A r \in Roles :
            /\ Cardinality(rollover_tables[r].rollover_completed_event_data) = 1
            /\ rollover_tables[r].revoked_commit_transactions
                   = rollover_cfd[r].dlc.revoked_commit
            /\ rollover_tables[r].open_cets
                   = { << latest_settlement_event_id(r), latest_commit_txid(r) >> }
            /\ load(rollover_tables[r]) # None
            /\ load(rollover_tables[r]).dlc = rollover_cfd[r].dlc
            /\ load(rollover_tables[r]).funding_fee = latest_funding_fee(r)
            /\ load(rollover_tables[r]).complete_fee = rollover_cfd[r].complete_fee

\* Two rollovers with different oracle data have been stored: one record is
\* kept on the maker's side and loading gives the DLC of the second rollover,
\* the two earlier commits revoked.
C38_Witness ==
    /\ Len(rollover_steps) = 2
    /\ \A i \in 1..2 : rollover_steps[i].kind = "rollover"
    /\ Cardinality(rollover_tables["Maker"].rollover_completed_event_data) = 1
    /\ load(rollover_tables["Maker"]).dlc.commit_txid = 2
    /\ load(rollover_tables["Maker"]).dlc.settlement_event_id
           # settlement_announcement("example_0")
    /\ Cardinality(load(rollover_tables["Maker"]).dlc.revoked_commit) = 2
    /\ Cardinality(rollover_tables["Maker"].open_cets) = 1

(***************************************************************************)
(* Properties of the lifecycle of a contract.                              *)
(***************************************************************************)
HappyPath == << "PendingSetup", "ContractSetup", "PendingOpen", "Open" >>

\* A step takes the side into the state from another one.
enters(r, st) == lifecycle_state(r) # st /\ lifecycle_state(r)' = st

\* C27: once the order is accepted the contract goes, on the maker's and on
\* the taker's side, through PendingSetup, ContractSetup, PendingOpen and Open
\* in this order: a side that has shown Open has shown these four first, it
\* enters ContractSetup when the setup starts, PendingOpen when its contract
\* setup completes, and Open when the lock transaction is confirmed, from
\* PendingOpen.
C27_SetupPhasesInOrder ==
    /\ [](\A r \in Roles :
            (\E i \in 1..Len(phases_of(r)) : phases_of(r)[i] = "Open") =>
                /\ Len(phases_of(r)) >= 4
                /\ SubSeq(phases_of(r), 1, 4) = HappyPath)
    /\ [][ \A r \in Roles :
              /\ enters(r, "ContractSetup") =>
                    (contract_setup_started(r) /\ lifecycle_state(r) = "PendingSetup")
              /\ enters(r, "PendingOpen") =>
                    (contract_setup_completed(r) /\ lifecycle_state(r) = "ContractSetup")
              /\ enters(r, "Open") =>
                    (lock_confirmed(r) /\ lifecycle_state(r) = "PendingOpen") ]_vars

\* Both sides show Open after the three events of the setup.
C27_Witness ==
    \A r \in Roles :
        /\ feed[r] = << "ContractSetupStarted", "ContractSetupCompleted", "LockConfirmed" >>
        /\ phases_of(r) = HappyPath
        /\ lifecycle_state(r) = "Open"

\* C28: the confirmation of the commit transaction leaves the contract in
\* OpenCommitted; there it stays when the CET timelock expires with no
\* attestation delivered and when the attestation of another event is
\* delivered; it enters PendingCet only with the attestation of its own
\* settlement event delivered (from OpenCommitted with the timelock expired:
\* by the delivery itself), and Closed only by the confirmation of the CET.
C28_ForceCloseOrder ==
    [][ \A r \in Roles :
          /\ commit_confirmed(r) => lifecycle_state(r)' = "OpenCommitted"
          /\ ( /\ cet_timelock_expired(r)
               /\ lifecycle_state(r) = "OpenCommitted"
               /\ "own" \notin delivered[r] ) => lifecycle_state(r)' = "OpenCommitted"
          /\ simulate_attestation(r, "other") =>
                (feed' = feed /\ lifecycle_state(r)' = lifecycle_state(r))
          /\ enters(r, "PendingCet") =>
                /\ "own" \in delivered'[r]
                /\ (lifecycle_state(r) = "OpenCommitted" /\ cet_timelock_has_expired(r)) =>
                       simulate_attestation(r, "own")
          /\ enters(r, "Closed") => cet_confirmed(r) ]_vars

\* The run of the test: the taker commits, the timelock expires before any
\* attestation, the wrong and then the right attestation are delivered, the
\* CET is confirmed; both sides show Closed.
C28_Witness ==
    /\ has_event("Taker", "ManualCommit")
    /\ \A r \in Roles :
          /\ lifecycle_state(r) = "Closed"
          /\ delivered[r] = Attestations
          /\ has_event(r, "CetTimelockExpiredPriorOracleAttestation")
          /\ has_event(r, "OracleAttestedPostCetTimelock")
          /\ feed[r][Len(feed[r])] = "CetConfirmed"

(***************************************************************************)
(* Properties of the offers and the orders of the taker.                   *)
(***************************************************************************)

\* PlaceOrder has sent the order actor an order for the offer.
order_placed(offer_id) ==
    /\ place_orders' = Append(place_orders,
           [ order_id |-> Len(place_orders) + 1, offer_id |-> offer_id ])
    /\ place_order_ret'.result = "Ok"

\* PlaceOrder has returned an error and the order actor was sent nothing.
order_refused ==
    /\ place_orders' = place_orders
    /\ place_order_ret'.result \in { "NotFound", "Outdated" }

\* The offer is one of those the maker holds as its current offers.
among_current_offers(offer_id) ==
    \E k \in OfferKeys : current_offers[k] # None /\ current_offers[k].id = offer_id

\* The taker holds the offer and the time is before its safe_until_timestamp.
held_and_safe(offer_id, at) ==
    /\ offers[offer_id] # None
    /\ offers[offer_id].id = offer_id
    /\ at < offers[offer_id].safe_until

\* C29, as stated: an order is placed, and a contract started, only against
\* an offer that is among the maker's current offers and safe to take at
\* that moment; an order for an unknown or expired offer is refused and
\* nothing is sent to the order actor.
C29_OrderOnlyForCurrentOffer ==
    [][\A offer_id \in OfferIds, later \in 0 .. 1 :
          handle_PlaceOrder(offer_id, later) =>
              /\ place_orders' # place_orders =>
                     /\ order_placed(offer_id)
                     /\ among_current_offers(offer_id)
                     /\ held_and_safe(offer_id, utc')
              /\ ~held_and_safe(offer_id, utc') => order_refused]_vars

\* C29, amended: an order is placed, and a contract started, only against an
\* offer that the maker has published, that the taker has received and still
\* holds, and that is safe to take at that moment, whether or not the maker
\* has replaced it by a later offer since; an order for an offer the taker
\* does not hold or for an expired offer is refused and nothing is sent to
\* the order actor.
C29_OrderOnlyForHeldSafeOffer ==
    [][\A offer_id \in OfferIds, later \in 0 .. 1 :
          handle_PlaceOrder(offer_id, later) =>
              /\ place_orders' # place_orders =>
                     /\ order_placed(offer_id)
                     /\ offer_id < next_offer_id
                     /\ held_and_safe(offer_id, utc')
              /\ ~held_and_safe(offer_id, utc') => order_refused]_vars

\* An order has been placed for an offer that the maker has replaced, and time
\* has passed since the maker's first offer.
C29_Witness ==
    /\ place_order_ret # None
    /\ place_order_ret.result = "Ok"
    /\ Len(place_orders) = 1
    /\ place_orders[1].offer_id = place_order_ret.offer_id
    /\ ~among_current_offers(place_order_ret.offer_id)
    /\ utc > 0

\* The offers the maker holds now, one per (symbol, position) it has
\* published an offer for.
held_by_maker == { current_offers[k] : k \in OfferKeys } \ { None }

\* C39: a taker whose connection is established after offers were published
\* is sent all the current offers of the maker in one message, unless opening
\* the substream fails; and the current offers are the most recently
\* published offer of each (contract symbol, maker position): publishing an
\* offer puts it in the place of the one held for its pair and leaves the
\* other pair alone, and nothing else changes the current offers.
C39_ConnectingTakerIsSentCurrentOffers ==
    [][ /\ \A peer \in Peers :
              ( /\ handle_connection_established(peer, TRUE)
                /\ Cardinality(latest_offers) < MaxInFlight ) =>
                  /\ latest_offers' = latest_offers \cup { held_by_maker }
                  /\ peer \in connected_peers'
        /\ \A key \in OfferKeys, safe_for \in 1 .. MaxSafeFor, sent \in BOOLEAN :
              handle_NewOffers(key, safe_for, sent) =>
                  /\ current_offers'[key] = Offer(next_offer_id, key, utc + safe_for)
                  /\ \A k \in OfferKeys \ { key } : current_offers'[k] = current_offers[k]
        /\ current_offers' # current_offers =>
              \E key \in OfferKeys, safe_for \in 1 .. MaxSafeFor, sent \in BOOLEAN :
                  handle_NewOffers(key, safe_for, sent) ]_vars

\* The maker published an offer for each position while no taker was
\* connected; the taker has connected since and the two offers are on their
\* way to it in one message.
C39_Witness ==
    /\ connected_peers = Peers
    /\ next_offer_id = 3
    /\ Cardinality(held_by_maker) = 2
    /\ held_by_maker \in latest_offers

(***************************************************************************)
(* Properties of Tasks.                                                    *)
(***************************************************************************)

\* C30: when a Tasks is dropped, every task that was added to it, by add or by
\* add_fallible, and has not finished is cancelled, and once the Tasks is
\* dropped no task is polled again: no task is running, and neither the
\* position nor the number of polls of any task changes.
C30_DropCancelsEveryTask ==
    /\ [][drop_tasks =>
            \A i \in 1 .. Len(tasks.handles) :
                /\ task_state'[tasks.handles[i]].pc \in { "finished", "cancelled" }
                /\ is_running(tasks.handles[i]) =>
                       task_state'[tasks.handles[i]].pc = "cancelled"]_vars
    /\ [](tasks.dropped => \A t \in TaskIds : ~is_running(t))
    /\ [][tasks.dropped =>
            /\ task_progress' = task_progress
            /\ task_state' = task_state]_vars

\* A Tasks with a plain task and a fallible one, both polled and still
\* running, has been dropped: both are cancelled.
C30_Witness ==
    /\ tasks.dropped
    /\ \E t \in TaskIds :
           task_state[t] = SpawnedTask(FALSE, "cancelled") /\ task_progress[t] > 0
    /\ \E t \in TaskIds :
           task_state[t] = SpawnedTask(TRUE, "cancelled") /\ task_progress[t] > 0

(***************************************************************************)
(* Properties of send_interval.                                            *)
(***************************************************************************)

\* The messages of the loop that are queued or in the handler.
in_flight_of(l) ==
    Cardinality({ i \in 1 .. Len(receiver.mailbox) : receiver.mailbox[i] = l })
        + (IF receiver.handling = l THEN 1 ELSE 0)

\* C35: a send_interval loop never has more than one of its messages queued
\* or being handled: it sends the next message only when none of its messages is
\* queued or in the handler, and, after its first message, only when the
\* interval has elapsed since the handler of the previous one returned.
C35_OneMessageAtATime ==
    /\ [](\A l \in Intervals : in_flight_of(l) <= 1)
    /\ [][\A l \in Intervals :
            in_flight_of(l)' > in_flight_of(l) =>
                /\ in_flight_of(l) = 0
                /\ interval_loop[l].sent > 0 => interval_loop[l].slept >= IntervalTicks]_vars

\* A loop has sent its second message, which waits behind the message of the
\* other loop that is in the handler.
C35_Witness ==
    \E l \in Intervals :
        /\ interval_loop[l].sent = 2
        /\ interval_loop[l].pc = "await"
        /\ in_flight_of(l) = 1
        /\ receiver.handling \notin { 0, l }

(***************************************************************************)
(* Properties of the collaborative settlement actor.                       *)
(***************************************************************************)
\* A settlement protocol is in flight for the contract: proposed and not yet
\* decided, or accepted with its task still running.
InFlight(o) ==
    \/ pending_protocols[o] # None
    \/ /\ protocol_tasks[o] # None
       /\ protocol_tasks[o].pc \notin { "done", "send_reject" }

\* C4: at most one settlement protocol is in flight for a contract: a Propose
\* that arrives while one is in flight is refused and neither replaces nor
\* disturbs the running one (its pending entry, its task and the contract's
\* events stay as they are).
C4_SecondStartDoesNotDisturb ==
    [][ \A o \in OrderIds :
          (InFlight(o) /\ substreams' # substreams) =>
              /\ pending_protocols'[o] = pending_protocols[o]
              /\ protocol_tasks'[o] = protocol_tasks[o]
              /\ emitted'[o] = emitted[o] ]_vars

\* The last event stored for the contract.
last_emitted(o) ==
    IF emitted[o] = << >> THEN "none" ELSE emitted[o][Len(emitted[o])]

\* The protocol of the contract was started and is neither completed, rejected
\* nor failed, and nothing of it is left in the actor.
EndedWithoutCompleting(o) ==
    /\ last_emitted(o) \in
          { "CollaborativeSettlementStarted", "CollaborativeSettlementProposalAccepted" }
    /\ ~ InFlight(o)

\* C5: whenever a started settlement protocol ends without completing, a
\* failure event is eventually emitted for it and the contract is back in the
\* state it had before the protocol started.
C5_FailureEventuallyEmitted ==
    \A o \in OrderIds :
        EndedWithoutCompleting(o) ~>
            /\ last_emitted(o) = "CollaborativeSettlementFailed"
            /\ cfd_state(o) = "Open"

\* C6: a task that failed with Failed::AfterReceiving is not handled as one
\* that failed before receiving: when its error handler has run, the contract
\* is not back in Open with the finalized settlement dropped.
C6_AfterReceivingIsNotReverted ==
    [][ \A o \in OrderIds :
          ( /\ task_at(o, "failed")
            /\ protocol_tasks[o].failed = "AfterReceiving"
            /\ protocol_tasks'[o] # None
            /\ protocol_tasks'[o].pc = "done" ) =>
              ~ ( /\ cfd_state(o)' = "Open"
                  /\ ~ protocol_tasks'[o].settlement ) ]_vars

\* The events stored for the contract hold the event.
recorded(o, name) == \E i \in 1 .. Len(emitted[o]) : emitted[o][i] = name

\* The task of the contract comes to the position pc in this step.
task_reaches(o, pc) ==
    /\ protocol_tasks'[o] # None
    /\ protocol_tasks'[o].pc = pc
    /\ ~task_at(o, pc)

\* C32: the maker sends Decision::Accept only after the acceptance has been
\* recorded on the contract; it sends its own signature only after the taker's
\* signature was received and the settlement transaction finalized; and the
\* settlement is recorded as completed only by the task whose send of the
\* maker's signature succeeded.
C32_SettlementMessagesInOrder ==
    /\ [][\A o \in OrderIds :
            /\ (\E ok \in BOOLEAN : task_send_decision(o, ok)) =>
                   recorded(o, "CollaborativeSettlementProposalAccepted")
            /\ (\E ok \in BOOLEAN : task_send_signature(o, ok)) =>
                   /\ protocol_tasks[o].settlement
                   /\ recorded(o, "CollaborativeSettlementProposalAccepted")
            /\ task_reaches(o, "send_signature") => task_recv_signature(o, TRUE)
            /\ task_reaches(o, "emit_completed") => task_send_signature(o, TRUE)
            /\ (Len(emitted'[o]) > Len(emitted[o])
                  /\ emitted'[o][Len(emitted'[o])] = "CollaborativeSettlementCompleted") =>
                   task_emit_completed(o)]_vars
    /\ [](\A o \in OrderIds :
            task_at(o, "emit_completed") => protocol_tasks[o].settlement)

\* A settlement went through all of its steps: the acceptance is recorded, the
\* task has finished and the settlement is recorded as completed.
C32_Witness ==
    \E o \in OrderIds :
        /\ task_at(o, "done")
        /\ recorded(o, "CollaborativeSettlementProposalAccepted")
        /\ emitted[o][Len(emitted[o])] = "CollaborativeSettlementCompleted"

(***************************************************************************)
(* Properties of the taker's rollover actor.                               *)
(***************************************************************************)
\* C40: the taker's rollover actor gives a rollover proposal to the maker
\* only if the contract can be rolled over; when it cannot, the actor reports
\* CannotRollover to its owner, and nothing else, stops, and sends nothing to
\* the maker.
C40_ProposesOnlyWhenCanRollOver ==
    \A o \in OrderIds :
        rollover_actor[o].pc # "unspawned" =>
            /\ proposals_sent[o] > 0 => can_roll_over(rollover_actor[o].cfd)
            /\ ~ can_roll_over(rollover_actor[o].cfd) =>
                  /\ on_completed[o] = << "CannotRollover" >>
                  /\ rollover_actor[o].pc = "stopped"
                  /\ proposals_sent[o] = 0

====
